---- MODULE Spec2Model ----
(***************************************************************************)
(* Model of the agent-marketplace API: the provider resilience core        *)
(* (withRetry, fetchWithTimeout), the streaming decoders, complete() with  *)
(* its error taxonomy and finish reasons, formatMessages, healthCheck, the *)
(* embedding batch path with the Ollama fallback, the embedding cache, the *)
(* four chunking strategies and re-chunking, job retries, the provider     *)
(* caches, truncateHistory, the RabbitMQ connection manager and the        *)
(* database connection.  Each subsystem has its own specification          *)
(* (SpecRetry, SpecConcurrent, SpecFetch, SpecStream, SpecComplete,        *)
(* SpecFormat, SpecHealth, SpecBatch, SpecFallback, SpecChunk,             *)
(* SpecStrategy, SpecRechunk, SpecJob, SpecProviders, SpecTruncate,        *)
(* SpecConnection, SpecDatabase, SpecCache); the variables of the other    *)
(* subsystems stay at their initial value.                                 *)
(***************************************************************************)
EXTENDS Integers, Sequences, FiniteSets, TLC

VARIABLES
    cfg,          \* retry: provider config {kind, maxRetries, retryDelayMs}
    rpc,          \* retry: per call, position inside withRetry
    attempt,      \* retry: the loop variable `attempt`, per storage slot
    lastError,    \* retry: per call, the local `lastError`
    invocations,  \* retry: per call, number of operation() invocations so far
    failures,     \* retry: per call, number of invocations that threw a retryable error
    sleepMs,      \* retry: per call, argument of the sleep in progress (or of the last one)
    sleeps,       \* retry: per call, number of sleeps started
    outcome,      \* retry: per call, value returned or error thrown to the caller
    freq,         \* fetch: the outbound request {kind, op, timeoutMs}
    fpc,          \* fetch: position of the attempt
    timerArmed,   \* fetch: the setTimeout(controller.abort) timer is pending
    elapsed,      \* fetch: ticks since the attempt started
    bodySent,     \* fetch: body pieces the vendor has sent so far
    ferr,         \* fetch: error the attempt ended with
    svendor,      \* stream: the LLM provider
    script,       \* stream: the lines the vendor sends in one response
    spos,         \* stream: lines of the script read so far in this attempt
    shalf,        \* stream: the head of the next line arrived in an earlier read
    content,      \* stream: processStream's local `content`
    finishReason, \* stream: processStream's local `finishReason`
    callbacks,    \* stream: the onChunk calls made during the stream() call, in order
    sentDeltas,   \* stream: the non-empty content deltas the vendor has sent during the call
    spc,          \* stream: position of the stream() call
    sattempt,     \* stream: withRetry's `attempt` of the stream() call
    response,     \* stream: the response returned by stream()
    ctext,        \* chunk: the text given to fixedChunk
    copts,        \* chunk: the options {chunkSize, chunkOverlap, minChunkSize, preserveSentences}
    cleaned,      \* chunk: fixedChunk's `cleanedText`
    startPos,     \* chunk: fixedChunk's `startPos`
    chunks,       \* chunk: fixedChunk's `chunks`
    cpc,          \* chunk: position of the fixedChunk call
    iters,        \* chunk: iterations of the while loop so far
    bcfg,         \* batch: the service's provider and its configuration
    cache,        \* batch: EmbeddingService.cache, cache key -> embedding
    btexts,       \* batch: `texts` of the current embedBatch call
    bopts,        \* batch: `options` of the current embedBatch call
    normalized,   \* batch: embedBatch's `normalized`
    cachedResults,\* batch: embedBatch's `cachedResults`
    presponse,    \* batch: what provider.embedBatch returned
    bresult,      \* batch: what EmbeddingService.embedBatch returned
    bpc,          \* batch: position of the embedBatch call
    ncalls,        \* batch: embedBatch calls made on this service
    strategy,     \* strategy: which chunker is called
    gtext,        \* strategy: the text argument
    gpages,       \* strategy: the pages argument of pageChunk
    gopts,        \* strategy: the options argument
    gresult,      \* strategy: what the call produced
    gpc,           \* strategy: position of the call
    otexts,       \* fallback: `texts` of the Ollama embedBatch call
    oinflight,    \* fallback: positions whose embed call is in flight
    oembedded,    \* fallback: position -> embedding returned by its embed call
    ofailed,      \* fallback: positions whose embed call has thrown
    onative,      \* fallback: outcome of the native request
    oresult,      \* fallback: what embedBatch returned
    opc,           \* fallback: position of the embedBatch call
    lvendor,      \* complete: the LLM provider called
    lreply,       \* complete: the HTTP response of the vendor
    loutcome,     \* complete: what complete() returned or threw
    lpc,           \* complete: idle / sent / returned / threw
    mvendor,      \* format: anthropic or google
    messages,     \* format: the ChatMessage list given to complete()
    mrequest,     \* format: the system field and message list sent to the vendor
    mpc,           \* format: idle / sent
    hprovider,    \* health: the provider whose healthCheck runs
    hreply,       \* health: what the request met (failure, timeout or response)
    hresult,      \* health: none / true / false / threw
    hpc,           \* health: idle / waiting / done
    kpc,          \* rechunk: position of each chunkDocument invocation
    kchunks,      \* rechunk: the chunk list each invocation computes
    chunkCollection,\* rechunk: the chunk documents stored for the knowledge base
    kbStatus,      \* rechunk: processing.status of the knowledge base
    job,          \* job: the persisted job document
    published,    \* job: messages published to the queue for the job
    rjcalls,       \* job: each retryJob call: position, loaded document, result
    pcaches,      \* providers: the provider maps of LLMService and the two factories
    handed,        \* providers: every answer given so far: request and instance
    history,      \* truncateHistory: the messages argument
    maxTokens,    \* truncateHistory: the maxTokens argument
    preserveSystem, \* truncateHistory: the preserveSystem argument
    truncated,    \* truncateHistory: the list returned
    tpc,           \* truncateHistory: idle, returned
    connection,   \* RabbitMQConnection.connection: 0 is null, n the n-th connection opened
    channel,      \* RabbitMQConnection.channel: 0 is null, n the channel of connection n
    isConnecting, \* RabbitMQConnection.isConnecting
    reconnectAttempts, \* RabbitMQConnection.reconnectAttempts
    qpc,          \* where the connect() attempt in flight stands: none, connecting, channel, topology
    qconn,        \* the connection the attempt in flight obtained from amqp.connect
    brokerOpen,   \* the connections open at the broker
    opened,       \* how many connections amqp.connect has opened so far
    timers,       \* handleDisconnect calls waiting in delay(reconnectDelay)
    closedByCaller, \* close() has completed and connect() has not been called by a caller since
    connectionAttempts, \* Database.connectionAttempts
    dbConnected,  \* Database.isConnected
    dpc,          \* each connect() call: idle, connecting, sleeping, returned, thrown, returnedNothing
    dfailed,      \* each connect() call: the attempts of the call that failed
    eprovider,    \* EmbeddingService.provider.name of a service created with enableCaching
    ecache,       \* EmbeddingService.cache of that service: cache key to embedding
    served,       \* the last embed / embedBatch call: the normalized texts and the embeddings returned for them
    ecalls        \* embed and embedBatch calls made on that service

retryVars == <<cfg, rpc, attempt, lastError, invocations, failures, sleepMs, sleeps, outcome>>

fetchVars == <<freq, fpc, timerArmed, elapsed, bodySent, ferr>>

streamVars == <<svendor, script, spos, shalf, content, finishReason, callbacks,
                sentDeltas, spc, sattempt, response>>

chunkVars == <<ctext, copts, cleaned, startPos, chunks, cpc, iters>>

batchVars == <<bcfg, cache, btexts, bopts, normalized, cachedResults, presponse, bresult,
               bpc, ncalls>>

strategyVars == <<strategy, gtext, gpages, gopts, gresult, gpc>>

fallbackVars == <<otexts, oinflight, oembedded, ofailed, onative, oresult, opc>>

completeVars == <<lvendor, lreply, loutcome, lpc>>

formatVars == <<mvendor, messages, mrequest, mpc>>

healthVars == <<hprovider, hreply, hresult, hpc>>

rechunkVars == <<kpc, kchunks, chunkCollection, kbStatus>>

jobVars == <<job, published, rjcalls>>

providersVars == <<pcaches, handed>>

truncateVars == <<history, maxTokens, preserveSystem, truncated, tpc>>

connectionVars == <<connection, channel, isConnecting, reconnectAttempts, qpc, qconn, brokerOpen, opened, timers, closedByCaller>>

databaseVars == <<connectionAttempts, dbConnected, dpc, dfailed>>

cacheVars == <<eprovider, ecache, served, ecalls>>

vars == <<retryVars, fetchVars, streamVars, chunkVars, batchVars, strategyVars,
           fallbackVars, completeVars, formatVars, healthVars,
           rechunkVars, jobVars, providersVars, truncateVars,
           connectionVars, databaseVars, cacheVars>>

\* what the actions of one subsystem leave alone
NotRetry == <<fetchVars, streamVars, chunkVars, batchVars, strategyVars, fallbackVars,
               completeVars, formatVars, healthVars, rechunkVars,
               jobVars, providersVars, truncateVars, connectionVars,
               databaseVars, cacheVars>>
NotFetch == <<retryVars, streamVars, chunkVars, batchVars, strategyVars, fallbackVars,
               completeVars, formatVars, healthVars, rechunkVars,
               jobVars, providersVars, truncateVars, connectionVars,
               databaseVars, cacheVars>>
NotStream == <<rpc, attempt, lastError, invocations, failures, sleepMs, sleeps, outcome,
               fetchVars, chunkVars, batchVars, strategyVars,
                fallbackVars, completeVars, formatVars, healthVars,
                rechunkVars, jobVars, providersVars, truncateVars,
                connectionVars, databaseVars, cacheVars>>
NotChunk == <<retryVars, fetchVars, streamVars, batchVars, strategyVars, fallbackVars,
               completeVars, formatVars, healthVars, rechunkVars,
               jobVars, providersVars, truncateVars, connectionVars,
               databaseVars, cacheVars>>
NotBatch == <<retryVars, fetchVars, streamVars, chunkVars, strategyVars, fallbackVars,
               completeVars, formatVars, healthVars, rechunkVars,
               jobVars, providersVars, truncateVars, connectionVars,
               databaseVars, cacheVars>>
NotStrategy == <<retryVars, fetchVars, streamVars, chunkVars, batchVars, fallbackVars,
                  completeVars, formatVars, healthVars, rechunkVars,
                  jobVars, providersVars, truncateVars, connectionVars,
                  databaseVars, cacheVars>>
NotFallback == <<retryVars, fetchVars, streamVars, chunkVars, batchVars, strategyVars,
                  completeVars, formatVars, healthVars, rechunkVars,
                  jobVars, providersVars, truncateVars, connectionVars,
                  databaseVars, cacheVars>>
NotComplete == <<retryVars, fetchVars, streamVars, chunkVars, batchVars, strategyVars, fallbackVars,
                  formatVars, healthVars, rechunkVars, jobVars,
                  providersVars, truncateVars, connectionVars,
                  databaseVars, cacheVars>>
NotFormat == <<retryVars, fetchVars, streamVars, chunkVars, batchVars, strategyVars, fallbackVars, completeVars,
                healthVars, rechunkVars, jobVars, providersVars,
                truncateVars, connectionVars, databaseVars, cacheVars>>
NotHealth == <<retryVars, fetchVars, streamVars, chunkVars, batchVars, strategyVars, fallbackVars, completeVars, formatVars,
                rechunkVars, jobVars, providersVars, truncateVars,
                connectionVars, databaseVars, cacheVars>>
NotRechunk == <<retryVars, fetchVars, streamVars, chunkVars, batchVars, strategyVars, fallbackVars, completeVars, formatVars, healthVars,
                 jobVars, providersVars, truncateVars, connectionVars,
                 databaseVars, cacheVars>>
NotJob == <<retryVars, fetchVars, streamVars, chunkVars, batchVars, strategyVars, fallbackVars, completeVars, formatVars, healthVars, rechunkVars,
             providersVars, truncateVars, connectionVars, databaseVars,
             cacheVars>>
NotProviders == <<retryVars, fetchVars, streamVars, chunkVars, batchVars, strategyVars, fallbackVars, completeVars, formatVars, healthVars, rechunkVars, jobVars,
                   truncateVars, connectionVars, databaseVars,
                   cacheVars>>
NotTruncate == <<retryVars, fetchVars, streamVars, chunkVars, batchVars, strategyVars, fallbackVars, completeVars, formatVars, healthVars, rechunkVars, jobVars, providersVars,
                  connectionVars, databaseVars, cacheVars>>
NotConnection == <<retryVars, fetchVars, streamVars, chunkVars, batchVars, strategyVars, fallbackVars, completeVars, formatVars, healthVars, rechunkVars, jobVars, providersVars, truncateVars,
                    databaseVars, cacheVars>>
NotDatabase == <<retryVars, fetchVars, streamVars, chunkVars, batchVars, strategyVars, fallbackVars, completeVars, formatVars, healthVars, rechunkVars, jobVars, providersVars, truncateVars, connectionVars,
                  cacheVars>>
NotCache == <<retryVars, fetchVars, streamVars, chunkVars, batchVars, strategyVars, fallbackVars, completeVars, formatVars, healthVars, rechunkVars, jobVars, providersVars, truncateVars, connectionVars, databaseVars>>

----------------------------------------------------------------------------
(* Bounds of the model *)

NumCalls == 2
MaxRetriesBound == 3
MaxClock == 5
MaxBodyPieces == 2
MaxDeltas == 2
MaxStreamRetries == 1
MaxTextLen == 5
MaxBatchLen == 3
MaxServiceCalls == 2
MaxDocLen == 4

\* longest ChatMessage list given to formatMessages
MaxMessages == 3

\* longest models array in an /api/tags body
MaxModels == 2

\* chunkDocument / rechunkDocument invocations on the knowledge base
MaxInvocations == 2

\* concurrent retryJob calls, and the largest maxAttempts of a job
MaxRetryCalls == 2
MaxAttemptsBound == 3

(* Generic helpers *)

Undefined == -1

RECURSIVE Pow2(_)
Pow2(n) == IF n = 0 THEN 1 ELSE 2 * Pow2(n - 1)

Min(a, b) == IF a <= b THEN a ELSE b

Max(a, b) == IF a >= b THEN a ELSE b

----------------------------------------------------------------------------
(* Provider resilience core: BaseEmbeddingProvider / BaseLLMProvider       *)

Calls == 1..NumCalls

ProviderKinds == {"embedding", "llm"}

RetryDelayChoices == {1000, 20000}

EmbeddingBackoffCapMs == 30000
LLMBackoffCapMs == 60000

NoId == <<0, 0>>

NoError == [cls |-> "None", code |-> "", retryable |-> FALSE,
            retryAfterMs |-> Undefined, id |-> NoId, cause |-> NoId]

\* EmbeddingError / LLMError thrown by the operation: (code, retryable)
ProviderError(code, retryable, id) ==
    [cls |-> "ProviderError", code |-> code, retryable |-> retryable,
     retryAfterMs |-> Undefined, id |-> id, cause |-> NoId]

\* EmbeddingRateLimitError / LLMRateLimitError: always retryable, optional retryAfterMs
RateLimitError(retryAfter, id) ==
    [cls |-> "RateLimitError", code |-> "RATE_LIMIT", retryable |-> TRUE,
     retryAfterMs |-> retryAfter, id |-> id, cause |-> NoId]

\* an error that is no instance of the provider error class (fetch TypeError, SyntaxError)
OtherError(id) ==
    [cls |-> "Other", code |-> "", retryable |-> FALSE,
     retryAfterMs |-> Undefined, id |-> id, cause |-> NoId]

RetryAfterChoices == {Undefined, 0, 500}

\* what one invocation of operation() can throw
ThrownErrors(id) ==
    {ProviderError("HTTP_400", FALSE, id), ProviderError("HTTP_500", TRUE, id),
     ProviderError("TIMEOUT", TRUE, id), OtherError(id)}
    \cup {RateLimitError(d, id) : d \in RetryAfterChoices}

\* the errors thrown while several calls run on one provider instance
ConcurrentErrors(id) ==
    {ProviderError("HTTP_400", FALSE, id), ProviderError("HTTP_500", TRUE, id),
     RateLimitError(500, id)}

OkValue(id) ==
    [cls |-> "Value", code |-> "", retryable |-> FALSE,
     retryAfterMs |-> Undefined, id |-> id, cause |-> NoId]

IsProviderError(e) == e.cls \in {"ProviderError", "RateLimitError"}

\* an error the taxonomy marks non-retryable (used by the properties and the history counters)
MarkedNonRetryable(e) == e.cls \in {"ProviderError", "RateLimitError"} /\ e.retryable = FALSE

\* `error instanceof EmbeddingError && !error.retryable`
IsNonRetryableIgnored(e) == FALSE
IsNonRetryable(e) == IsProviderError(e) /\ ~e.retryable

\* `error instanceof EmbeddingRateLimitError && error.retryAfterMs` (truthiness: 0 is falsy)
HasRetryAfterIgnored(e) == FALSE
HasRetryAfter(e) ==
    e.cls = "RateLimitError" /\ e.retryAfterMs # Undefined /\ e.retryAfterMs # 0

BackoffCap(kind) == IF kind = "embedding" THEN EmbeddingBackoffCapMs ELSE LLMBackoffCapMs

\* Math.random() * baseDelay lies in [0, baseDelay); two representatives
JitterChoices(baseDelay) == {0, baseDelay - 1}

calculateBackoff(kind, baseDelay, att, jitter) ==
    Min(baseDelay * Pow2(att) + jitter, BackoffCap(kind))

MaxRetriesError(c, last) ==
    [cls |-> "ProviderError", code |-> "MAX_RETRIES_EXCEEDED", retryable |-> FALSE,
     retryAfterMs |-> Undefined, id |-> <<c, 0>>, cause |-> last.id]

\* `let attempt` is a local of each withRetry invocation
AttemptSlotShared(c) == 1
AttemptSlot(c) == c

\* loop condition `attempt <= this.config.maxRetries`
LoopContinuesOffByOne(att, maxRetries) == att < maxRetries
LoopContinues(att, maxRetries) == att <= maxRetries

RetryStart ==
    /\ cfg \in [kind : ProviderKinds, maxRetries : 0..MaxRetriesBound,
                retryDelayMs : RetryDelayChoices]
    /\ rpc = [c \in Calls |-> "idle"]
    /\ attempt = [c \in Calls |-> 0]
    /\ lastError = [c \in Calls |-> NoError]
    /\ invocations = [c \in Calls |-> 0]
    /\ failures = [c \in Calls |-> 0]
    /\ sleepMs = [c \in Calls |-> Undefined]
    /\ sleeps = [c \in Calls |-> 0]
    /\ outcome = [c \in Calls |-> NoError]

\* entry of withRetry: `let lastError; for (let attempt = 0; ...`
WithRetryStart(c) ==
    /\ rpc[c] = "idle"
    /\ attempt' = [attempt EXCEPT ![AttemptSlot(c)] = 0]
    /\ rpc' = [rpc EXCEPT ![c] =
                 IF LoopContinues(0, cfg.maxRetries) THEN "attempting" ELSE "thrown"]
    /\ outcome' = [outcome EXCEPT ![c] =
                 IF LoopContinues(0, cfg.maxRetries) THEN @ ELSE MaxRetriesError(c, NoError)]
    /\ UNCHANGED <<cfg, lastError, invocations, failures, sleepMs, sleeps>>
    /\ UNCHANGED NotRetry

\* `return await operation()` succeeds
OperationSucceeds(c) ==
    /\ rpc[c] = "attempting"
    /\ invocations' = [invocations EXCEPT ![c] = @ + 1]
    /\ rpc' = [rpc EXCEPT ![c] = "returned"]
    /\ outcome' = [outcome EXCEPT ![c] = OkValue(<<c, invocations[c] + 1>>)]
    /\ UNCHANGED <<cfg, attempt, lastError, failures, sleepMs, sleeps>>
    /\ UNCHANGED NotRetry

\* operation() throws e: the catch block up to its await (or its throw / break)
OperationThrows(c, e, jitter) ==
    /\ rpc[c] = "attempting"
    /\ invocations' = [invocations EXCEPT ![c] = @ + 1]
    /\ lastError' = [lastError EXCEPT ![c] = e]
    /\ failures' = [failures EXCEPT ![c] = IF MarkedNonRetryable(e) THEN @ ELSE @ + 1]
    /\ IF IsNonRetryable(e)
         THEN /\ rpc' = [rpc EXCEPT ![c] = "thrown"]
              /\ outcome' = [outcome EXCEPT ![c] = e]
              /\ UNCHANGED <<sleepMs, sleeps>>
       ELSE IF HasRetryAfter(e)
         THEN /\ rpc' = [rpc EXCEPT ![c] = "sleeping"]
              /\ sleepMs' = [sleepMs EXCEPT ![c] = e.retryAfterMs]
              /\ sleeps' = [sleeps EXCEPT ![c] = @ + 1]
              /\ UNCHANGED outcome
       ELSE IF attempt[AttemptSlot(c)] = cfg.maxRetries
         THEN /\ rpc' = [rpc EXCEPT ![c] = "thrown"]
              /\ outcome' = [outcome EXCEPT ![c] = MaxRetriesError(c, e)]
              /\ UNCHANGED <<sleepMs, sleeps>>
       ELSE /\ rpc' = [rpc EXCEPT ![c] = "sleeping"]
            /\ sleepMs' = [sleepMs EXCEPT ![c] =
                   calculateBackoff(cfg.kind, cfg.retryDelayMs,
                                    attempt[AttemptSlot(c)], jitter)]
            /\ sleeps' = [sleeps EXCEPT ![c] = @ + 1]
            /\ UNCHANGED outcome
    /\ UNCHANGED <<cfg, attempt>>
    /\ UNCHANGED NotRetry

OperationFails(c) ==
    \E e \in ThrownErrors(<<c, invocations[c] + 1>>) :
       \E jitter \in JitterChoices(cfg.retryDelayMs) :
          OperationThrows(c, e, jitter)

\* the same with the errors of the concurrent scenario
OperationFailsConcurrently(c) ==
    \E e \in ConcurrentErrors(<<c, invocations[c] + 1>>) :
       \E jitter \in JitterChoices(cfg.retryDelayMs) :
          OperationThrows(c, e, jitter)

\* the sleep resolves: `attempt++`, loop test, and the throw after the loop
SleepDone(c) ==
    /\ rpc[c] = "sleeping"
    /\ attempt' = [attempt EXCEPT ![AttemptSlot(c)] = @ + 1]
    /\ IF LoopContinues(attempt[AttemptSlot(c)] + 1, cfg.maxRetries)
         THEN /\ rpc' = [rpc EXCEPT ![c] = "attempting"]
              /\ UNCHANGED outcome
         ELSE /\ rpc' = [rpc EXCEPT ![c] = "thrown"]
              /\ outcome' = [outcome EXCEPT ![c] = MaxRetriesError(c, lastError[c])]
    /\ UNCHANGED <<cfg, lastError, invocations, failures, sleepMs, sleeps>>
    /\ UNCHANGED NotRetry

\* the resilience core at rest (the state the other subsystems run in)
RetryIdle ==
    /\ cfg = [kind |-> "llm", maxRetries |-> 1, retryDelayMs |-> 1000]
    /\ rpc = [c \in Calls |-> "idle"]
    /\ attempt = [c \in Calls |-> 0]
    /\ lastError = [c \in Calls |-> NoError]
    /\ invocations = [c \in Calls |-> 0]
    /\ failures = [c \in Calls |-> 0]
    /\ sleepMs = [c \in Calls |-> Undefined]
    /\ sleeps = [c \in Calls |-> 0]
    /\ outcome = [c \in Calls |-> NoError]

----------------------------------------------------------------------------
(* fetchWithTimeout and the reading of the response that follows it *)

\* the outbound calls and whether the caller reads the response body afterwards
\* (response.json(), response.text() or the stream reader)
Operations ==
    {[kind |-> "embedding", op |-> "embed", readsBody |-> TRUE],
     [kind |-> "embedding", op |-> "embedBatch", readsBody |-> TRUE],
     [kind |-> "embedding", op |-> "healthCheckTags", readsBody |-> TRUE],
     [kind |-> "embedding", op |-> "healthCheckModels", readsBody |-> FALSE],
     [kind |-> "llm", op |-> "complete", readsBody |-> TRUE],
     [kind |-> "llm", op |-> "stream", readsBody |-> TRUE],
     [kind |-> "llm", op |-> "healthCheck", readsBody |-> FALSE]}

\* this.config.timeoutMs, in clock ticks
TimeoutChoices == {2, 3}

\* EmbeddingTimeoutError / LLMError('Request timed out', 'TIMEOUT', true)
TimeoutError == ProviderError("TIMEOUT", TRUE, NoId)

\* fetch or a body read rejecting with a network error: rethrown as it is
NetworkError == OtherError(NoId)

\* `finally { clearTimeout(timeoutId) }` runs as soon as fetch() settles
TimerAfterHeaders(armed) == FALSE

FetchIdle ==
    /\ freq = [kind |-> "llm", op |-> "complete", readsBody |-> TRUE, timeoutMs |-> 2]
    /\ fpc = "idle"
    /\ timerArmed = FALSE
    /\ elapsed = 0
    /\ bodySent = 0
    /\ ferr = NoError

FetchStart ==
    /\ \E o \in Operations, t \in TimeoutChoices :
          freq = [kind |-> o.kind, op |-> o.op, readsBody |-> o.readsBody, timeoutMs |-> t]
    /\ fpc = "idle"
    /\ timerArmed = FALSE
    /\ elapsed = 0
    /\ bodySent = 0
    /\ ferr = NoError

InFlight == fpc \in {"fetching", "body"}

\* new AbortController, setTimeout(abort, timeoutMs), fetch(url, {signal})
FetchBegin ==
    /\ fpc = "idle"
    /\ fpc' = "fetching"
    /\ timerArmed' = TRUE
    /\ UNCHANGED <<freq, elapsed, bodySent, ferr>>
    /\ UNCHANGED NotFetch

\* time passes; a pending timer fires when it is due, never later
Tick ==
    /\ InFlight
    /\ elapsed < MaxClock
    /\ ~(timerArmed /\ elapsed >= freq.timeoutMs)
    /\ elapsed' = elapsed + 1
    /\ UNCHANGED <<freq, fpc, timerArmed, bodySent, ferr>>
    /\ UNCHANGED NotFetch

\* the timer runs controller.abort(): the pending operation rejects with AbortError,
\* the catch block turns it into the timeout error
TimerFires ==
    /\ InFlight
    /\ timerArmed
    /\ elapsed >= freq.timeoutMs
    /\ fpc' = "failed"
    /\ ferr' = TimeoutError
    /\ timerArmed' = FALSE
    /\ UNCHANGED <<freq, elapsed, bodySent>>
    /\ UNCHANGED NotFetch

\* fetch() resolves with the response (status line and headers): `return response`
HeadersArrive ==
    /\ fpc = "fetching"
    /\ timerArmed' = TimerAfterHeaders(timerArmed)
    /\ fpc' = IF freq.readsBody THEN "body" ELSE "done"
    /\ UNCHANGED <<freq, elapsed, bodySent, ferr>>
    /\ UNCHANGED NotFetch

\* fetch() or a body read rejects with a network error
NetworkFails ==
    /\ InFlight
    /\ fpc' = "failed"
    /\ ferr' = NetworkError
    /\ timerArmed' = FALSE
    /\ UNCHANGED <<freq, elapsed, bodySent>>
    /\ UNCHANGED NotFetch

\* the vendor sends one more piece of the body
BodyPieceArrives ==
    /\ fpc = "body"
    /\ bodySent < MaxBodyPieces
    /\ bodySent' = bodySent + 1
    /\ UNCHANGED <<freq, fpc, timerArmed, elapsed, ferr>>
    /\ UNCHANGED NotFetch

\* the vendor ends the body: response.json() resolves / the reader reports done
BodyComplete ==
    /\ fpc = "body"
    /\ fpc' = "done"
    /\ timerArmed' = FALSE
    /\ UNCHANGED <<freq, elapsed, bodySent, ferr>>
    /\ UNCHANGED NotFetch

\* C4: every outbound attempt honors the deadline timeoutMs: no attempt is still
\* in flight (waiting for headers, or for the rest of the body or stream) after
\* timeoutMs, and an attempt cut off at the deadline ends with the retryable
\* TIMEOUT error, which is not the network-failure error.
C4_DeadlineHonored ==
    /\ InFlight => elapsed <= freq.timeoutMs
    /\ (fpc = "failed" /\ ferr.code = "TIMEOUT") =>
          (ferr.retryable /\ ferr # NetworkError /\ elapsed = freq.timeoutMs)

----------------------------------------------------------------------------
(* stream(): withRetry around fetch + processStream, for the four LLM providers *)

Vendors == {"openai", "anthropic", "google", "ollama"}

\* the text of a content delta, as a sequence of characters ("" is a delta without text)
DeltaTexts == {<<>>, <<"a">>, <<"b">>}

\* the finish / stop reason strings a vendor sends
VendorFinishReasons(v) ==
    CASE v = "openai" -> {"stop", "length", "content_filter", "tool_calls"}
      [] v = "anthropic" -> {"end_turn", "stop_sequence", "max_tokens", "tool_use"}
      [] v = "google" -> {"STOP", "MAX_TOKENS", "SAFETY", "RECITATION", "OTHER"}
      [] v = "ollama" -> {"stop", "length", "load"}

Line(ev, text, fin) == [ev |-> ev, text |-> text, fin |-> fin]

\* one content line in the vendor's wire format
DeltaLine(v, text) ==
    CASE v = "openai" -> Line("chunk", text, "")
      [] v = "anthropic" -> Line("content_block_delta", text, "")
      [] v = "google" -> Line("candidate", text, "")
      [] v = "ollama" -> Line("message", text, "")

\* the lines that end a response
ClosingLines(v, fin) ==
    CASE v = "openai" -> <<Line("chunk", <<>>, fin), Line("DONE", <<>>, "")>>
      [] v = "anthropic" -> <<Line("message_delta", <<>>, fin), Line("message_stop", <<>>, "")>>
      [] v = "google" -> <<Line("candidate", <<>>, fin)>>
      [] v = "ollama" -> <<Line("done", <<>>, fin)>>

OpeningLines(v) ==
    IF v = "anthropic" THEN <<Line("message_start", <<>>, "")>> ELSE <<>>

VendorScript(v, texts, fin) ==
    OpeningLines(v) \o [i \in 1..Len(texts) |-> DeltaLine(v, texts[i])] \o ClosingLines(v, fin)

Chunk(text) == [content |-> text, done |-> FALSE]
TerminalChunk == [content |-> <<>>, done |-> TRUE]

\* the state processStream keeps while decoding: content, finishReason and the
\* onChunk calls made
Decoder(c, f, cbs) == [content |-> c, finishReason |-> f, callbacks |-> cbs]

\* `if (delta.content) { content += ...; onChunk({content, done: false}) }`
WithDelta(d, text) ==
    IF text = <<>> THEN d
    ELSE Decoder(d.content \o text, d.finishReason, Append(d.callbacks, Chunk(text)))

WithFinish(d, fin) ==
    IF fin = "" THEN d ELSE Decoder(d.content, fin, d.callbacks)

WithTerminal(d) == Decoder(d.content, d.finishReason, Append(d.callbacks, TerminalChunk))

\* the body of `for (const line of lines)` for one complete line
ProcessLine(v, line, d) ==
    CASE v = "openai" ->
           IF line.ev = "DONE" THEN WithTerminal(d)
           ELSE WithFinish(WithDelta(d, line.text), line.fin)
      [] v = "anthropic" ->
           CASE line.ev = "content_block_delta" -> WithDelta(d, line.text)
             [] line.ev = "message_delta" -> WithFinish(d, line.fin)
             [] line.ev = "message_stop" -> WithTerminal(d)
             [] OTHER -> d
      [] v = "google" -> WithFinish(WithDelta(d, line.text), line.fin)
      [] v = "ollama" ->
           IF line.ev = "done"
             THEN WithTerminal(Decoder(WithDelta(d, line.text).content, line.fin,
                                       WithDelta(d, line.text).callbacks))
             ELSE WithDelta(d, line.text)

\* what follows the read loop inside processStream: Gemini alone reports the end here
AfterLoop(v, d) == IF v = "google" THEN WithTerminal(d) ELSE d

\* OpenAI: `choice?.finish_reason || null` in parseResponse, `finishReason as any` in
\* processStream: the vendor's string as it is, null when there was none
OpenAIFinishReason(reason) == IF reason = "" THEN "null" ELSE reason

AnthropicMapFinishReason(reason) ==
    CASE reason \in {"end_turn", "stop_sequence"} -> "stop"
      [] reason = "max_tokens" -> "length"
      [] OTHER -> "null"

GoogleMapFinishReason(reason) ==
    CASE reason = "STOP" -> "stop"
      [] reason = "MAX_TOKENS" -> "length"
      [] reason \in {"SAFETY", "RECITATION"} -> "content_filter"
      [] OTHER -> "null"

OllamaMapFinishReason(reason) ==
    CASE reason = "stop" -> "stop"
      [] reason = "length" -> "length"
      [] OTHER -> "null"

mapFinishReason(v, reason) ==
    CASE v = "openai" -> OpenAIFinishReason(reason)
      [] v = "anthropic" -> AnthropicMapFinishReason(reason)
      [] v = "google" -> GoogleMapFinishReason(reason)
      [] v = "ollama" -> OllamaMapFinishReason(reason)

StreamIdle ==
    /\ svendor = "openai"
    /\ script = <<>>
    /\ spos = 0
    /\ shalf = FALSE
    /\ content = <<>>
    /\ finishReason = ""
    /\ callbacks = <<>>
    /\ sentDeltas = <<>>
    /\ spc = "idle"
    /\ sattempt = 0
    /\ response = [content |-> <<>>, finishReason |-> ""]

StreamStart ==
    /\ svendor \in Vendors
    /\ \E n \in 0..MaxDeltas : \E texts \in [1..n -> DeltaTexts] :
         \E fin \in VendorFinishReasons(svendor) :
            script = VendorScript(svendor, texts, fin)
    /\ spos = 0
    /\ shalf = FALSE
    /\ content = <<>>
    /\ finishReason = ""
    /\ callbacks = <<>>
    /\ sentDeltas = <<>>
    /\ spc = "idle"
    /\ sattempt = 0
    /\ response = [content |-> <<>>, finishReason |-> ""]

\* an attempt: the request is answered with 200 and processStream starts with fresh locals
StreamAttemptBegin ==
    /\ spc \in {"idle", "backoff"}
    /\ sattempt' = IF spc = "idle" THEN 0 ELSE sattempt + 1
    /\ spc' = "reading"
    /\ spos' = 0
    /\ shalf' = FALSE
    /\ content' = <<>>
    /\ finishReason' = ""
    /\ UNCHANGED <<cfg, svendor, script, callbacks, sentDeltas, response>>
    /\ UNCHANGED NotStream

Sent(log, line) == IF line.text = <<>> THEN log ELSE Append(log, line.text)

\* a read brings the next line whole: it is decoded
ReadLine ==
    /\ spc = "reading"
    /\ ~shalf
    /\ spos < Len(script)
    /\ LET d == ProcessLine(svendor, script[spos + 1],
                            Decoder(content, finishReason, callbacks))
       IN /\ content' = d.content
          /\ finishReason' = d.finishReason
          /\ callbacks' = d.callbacks
    /\ sentDeltas' = Sent(sentDeltas, script[spos + 1])
    /\ spos' = spos + 1
    /\ UNCHANGED <<cfg, svendor, script, shalf, spc, sattempt, response>>
    /\ UNCHANGED NotStream

\* a read ends inside the next line: the fragment is no `data: ` line with valid
\* JSON (or no valid NDJSON), so it is skipped
ReadLineHead ==
    /\ spc = "reading"
    /\ ~shalf
    /\ spos < Len(script)
    /\ shalf' = TRUE
    /\ UNCHANGED <<cfg, svendor, script, spos, content, finishReason, callbacks,
                   sentDeltas, spc, sattempt, response>>
    /\ UNCHANGED NotStream

\* the next read starts with the rest of that line: skipped as well
ReadLineTail ==
    /\ spc = "reading"
    /\ shalf
    /\ shalf' = FALSE
    /\ sentDeltas' = Sent(sentDeltas, script[spos + 1])
    /\ spos' = spos + 1
    /\ UNCHANGED <<cfg, svendor, script, content, finishReason, callbacks,
                   spc, sattempt, response>>
    /\ UNCHANGED NotStream

\* reader.read() reports done: the loop ends and processStream returns
ReadDone ==
    /\ spc = "reading"
    /\ ~shalf
    /\ spos = Len(script)
    /\ LET d == AfterLoop(svendor, Decoder(content, finishReason, callbacks))
       IN /\ callbacks' = d.callbacks
          /\ response' = [content |-> d.content,
                          finishReason |-> mapFinishReason(svendor, d.finishReason)]
    /\ spc' = "returned"
    /\ UNCHANGED <<cfg, svendor, script, spos, shalf, content, finishReason,
                   sentDeltas, sattempt>>
    /\ UNCHANGED NotStream

\* reader.read() rejects (connection lost): the error is no LLMError, so withRetry
\* backs off and runs the operation again, or gives up after the last attempt
ReadFails ==
    /\ spc = "reading"
    /\ LET e == OtherError(<<1, sattempt + 1>>)
       IN spc' = IF IsNonRetryable(e) \/ sattempt = cfg.maxRetries
                 THEN "thrown" ELSE "backoff"
    /\ UNCHANGED <<cfg, svendor, script, spos, shalf, content, finishReason, callbacks,
                   sentDeltas, sattempt, response>>
    /\ UNCHANGED NotStream

ContentChunks(cbs) == SelectSeq(cbs, LAMBDA cb : ~cb.done)
TerminalChunks(cbs) == SelectSeq(cbs, LAMBDA cb : cb.done)

RECURSIVE Concat(_)
Concat(cbs) == IF cbs = <<>> THEN <<>> ELSE Head(cbs).content \o Concat(Tail(cbs))

\* C7: when stream() returns, onChunk has been called once per content delta the
\* vendor sent, in order, with done=false, and exactly once with done=true, after
\* all content callbacks.
C7_CallbacksExactlyOnce ==
    spc = "returned" =>
        /\ [i \in 1..Len(ContentChunks(callbacks)) |-> ContentChunks(callbacks)[i].content]
              = sentDeltas
        /\ Len(TerminalChunks(callbacks)) = 1
        /\ callbacks[Len(callbacks)].done

\* C8: the content of the response returned by stream() is the concatenation of
\* the content of the done=false callbacks made during the call.
C8_ContentIsConcatenation ==
    spc = "returned" => response.content = Concat(ContentChunks(callbacks))

----------------------------------------------------------------------------
(* textUtils and the fixed chunker.  A text is a sequence of characters;       *)
(* positions are 0-based as in the code.                                       *)

SP == " "
LF == "LF"
CR == "CR"
TAB == "TAB"

\* \s of the regular expressions and of String.prototype.trim
Whitespace == {SP, LF, CR, TAB}

SentencePunctuation == {".", "!", "?"}

\* String.prototype.substring: both arguments clamped to [0, length], swapped if needed
Substring(s, a, b) ==
    LET ca == Max(0, Min(a, Len(s)))
        cb == Max(0, Min(b, Len(s)))
    IN SubSeq(s, Min(ca, cb) + 1, Max(ca, cb))

\* String.prototype.trim
Trim(s) ==
    IF \A i \in 1..Len(s) : s[i] \in Whitespace THEN <<>>
    ELSE LET first == CHOOSE i \in 1..Len(s) :
                          s[i] \notin Whitespace /\ \A j \in 1..(i - 1) : s[j] \in Whitespace
             last == CHOOSE i \in 1..Len(s) :
                          s[i] \notin Whitespace /\ \A j \in (i + 1)..Len(s) : s[j] \in Whitespace
         IN SubSeq(s, first, last)

\* the characters of s at the positions where Keep holds
KeepWhere(s, Keep(_, _)) ==
    LET tagged == [i \in 1..Len(s) |-> <<s[i], Keep(s, i)>>]
        kept == SelectSeq(tagged, LAMBDA t : t[2])
    IN [i \in 1..Len(kept) |-> kept[i][1]]

\* .replace(/\r\n/g, '\n')
NormalizeLineBreaks(s) ==
    KeepWhere(s, LAMBDA t, i : ~(t[i] = CR /\ i < Len(t) /\ t[i + 1] = LF))

\* .replace(/[ \t]+/g, ' ')
CollapseBlanks(s) ==
    LET first == KeepWhere(s, LAMBDA t, i :
                    ~(t[i] \in {SP, TAB} /\ i > 1 /\ t[i - 1] \in {SP, TAB}))
    IN [i \in 1..Len(first) |-> IF first[i] = TAB THEN SP ELSE first[i]]

\* .replace(/\n{3,}/g, '\n\n')
CollapseNewlines(s) ==
    KeepWhere(s, LAMBDA t, i : ~(t[i] = LF /\ i > 2 /\ t[i - 1] = LF /\ t[i - 2] = LF))

cleanTextForChunking(text) ==
    Trim(CollapseNewlines(CollapseBlanks(NormalizeLineBreaks(text))))

\* Math.ceil(text.length / 4)
estimateTokens(text) == (Len(text) + 3) \div 4

SearchRange == 100
WordLookahead == 20

SetMax(S) == CHOOSE x \in S : \A y \in S : y <= x

\* s.lastIndexOf(pattern, fromIndex) for a pattern given as a sequence; -1 if absent
LastIndexOf(s, pat, fromIndex) ==
    LET hits == {i \in 0..(Len(s) - Len(pat)) :
                    i <= fromIndex /\ \A k \in 1..Len(pat) : s[i + k] = pat[k]}
    IN IF hits = {} THEN -1 ELSE SetMax(hits)

\* the end (0-based, exclusive) of each match of /[.!?]\s+/g in s
SentenceEnds(s) ==
    {e \in 2..Len(s) :
        \E i \in 1..(e - 1) :
            /\ s[i] \in SentencePunctuation
            /\ \A k \in (i + 1)..e : s[k] \in Whitespace
            /\ (e = Len(s) \/ s[e + 1] \notin Whitespace)}

findBreakPoint(text, targetPos, searchRange) ==
    IF targetPos >= Len(text) THEN Len(text)
    ELSE LET start == Max(0, targetPos - searchRange)
             end == Min(Len(text), targetPos + searchRange)
             searchText == Substring(text, start, end)
             relativeTarget == targetPos - start
             paragraphBreak == LastIndexOf(searchText, <<LF, LF>>, relativeTarget + searchRange)
             ends == {e \in SentenceEnds(searchText) : e <= relativeTarget + searchRange}
             bestSentenceEnd == IF ends = {} THEN -1 ELSE SetMax(ends)
             wordBoundary == LastIndexOf(searchText, <<SP>>, relativeTarget + WordLookahead)
         IN IF paragraphBreak # -1 /\ paragraphBreak > relativeTarget - searchRange
              THEN start + paragraphBreak + 2
            ELSE IF bestSentenceEnd # -1 /\ bestSentenceEnd > relativeTarget - searchRange
              THEN start + bestSentenceEnd
            ELSE IF wordBoundary # -1
              THEN start + wordBoundary + 1
            ELSE targetPos

\* `endPos` of the window that starts at pos
WindowEnd(text, pos, o) ==
    IF o.preserveSentences /\ pos + o.chunkSize < Len(text)
      THEN findBreakPoint(text, pos + o.chunkSize, SearchRange)
      ELSE pos + o.chunkSize

WindowContent(text, pos, o) == Trim(Substring(text, pos, WindowEnd(text, pos, o)))

\* `chunkContent.length < minChunkSize && startPos + chunkSize < cleanedText.length`
WindowSkipped(text, pos, o) ==
    /\ Len(WindowContent(text, pos, o)) < o.minChunkSize
    /\ pos + o.chunkSize < Len(text)

ChunkData(c, startChar, endChar) ==
    [content |-> c, charCount |-> Len(c), tokenCount |-> estimateTokens(c),
     startChar |-> startChar, endChar |-> endChar]

\* the start of the next window after a chunk was pushed: overlap, then the progress guard
NextStartAfterChunk(pos, endPos, o) ==
    IF endPos - o.chunkOverlap <= pos THEN endPos ELSE endPos - o.chunkOverlap

\* the start of the next window after a skipped one
NextStartAfterSkip(endPos, o) == endPos - o.chunkOverlap

\* A window start lies in -chunkOverlap .. length-1 and alone decides the next one,
\* so a call still in the loop after this many iterations repeats a start forever.
IterationLimit(text, o) == Len(text) + o.chunkOverlap + 1

InputChars == {"a", ".", SP, LF}

InputTexts ==
    UNION {[1..n -> InputChars] : n \in 0..MaxTextLen}
    \cup {<<"a", CR, LF, "a">>, <<"a", TAB, SP, "a">>, <<SP, "a", LF, LF, LF, "a">>}

ChunkSizeChoices == {2, 3}
ChunkOverlapChoices == {0, 1, 2}
MinChunkSizeChoices == {0, 2}

InputOptions ==
    [chunkSize : ChunkSizeChoices, chunkOverlap : ChunkOverlapChoices,
     minChunkSize : MinChunkSizeChoices, preserveSentences : BOOLEAN]

\* fixedChunk("A"*2500, {chunkSize:1000, chunkOverlap:200, minChunkSize:100, preserveSentences:false})
ScenarioText == [i \in 1..2500 |-> "A"]
ScenarioOptions ==
    [chunkSize |-> 1000, chunkOverlap |-> 200, minChunkSize |-> 100,
     preserveSentences |-> FALSE]

ChunkIdle ==
    /\ ctext = <<>>
    /\ copts = ScenarioOptions
    /\ cleaned = <<>>
    /\ startPos = 0
    /\ chunks = <<>>
    /\ cpc = "idle"
    /\ iters = 0

ChunkStart ==
    /\ \/ ctext \in InputTexts /\ copts \in InputOptions
       \/ ctext = ScenarioText /\ copts = ScenarioOptions
    /\ cleaned = <<>>
    /\ startPos = 0
    /\ chunks = <<>>
    /\ cpc = "idle"
    /\ iters = 0

\* entry of fixedChunk up to the first test of the while condition
FixedChunkBegin ==
    /\ cpc = "idle"
    /\ cleaned' = cleanTextForChunking(ctext)
    /\ startPos' = 0
    /\ chunks' = <<>>
    /\ cpc' = IF 0 < Len(cleanTextForChunking(ctext)) THEN "loop" ELSE "done"
    /\ UNCHANGED <<ctext, copts, iters>>
    /\ UNCHANGED NotChunk

\* one iteration that pushes a chunk, and the next test of the while condition
FixedChunkEmit ==
    /\ cpc = "loop"
    /\ iters < IterationLimit(cleaned, copts)
    /\ ~WindowSkipped(cleaned, startPos, copts)
    /\ LET endPos == WindowEnd(cleaned, startPos, copts)
           next == NextStartAfterChunk(startPos, endPos, copts)
       IN /\ chunks' = Append(chunks,
                              ChunkData(WindowContent(cleaned, startPos, copts),
                                        startPos, endPos))
          /\ startPos' = next
          /\ cpc' = IF next < Len(cleaned) THEN "loop" ELSE "done"
    /\ iters' = iters + 1
    /\ UNCHANGED <<ctext, copts, cleaned>>
    /\ UNCHANGED NotChunk

\* one iteration that skips an undersized window (`continue`)
FixedChunkSkip ==
    /\ cpc = "loop"
    /\ iters < IterationLimit(cleaned, copts)
    /\ WindowSkipped(cleaned, startPos, copts)
    /\ LET next == NextStartAfterSkip(WindowEnd(cleaned, startPos, copts), copts)
       IN /\ startPos' = next
          /\ cpc' = IF next < Len(cleaned) THEN "loop" ELSE "done"
    /\ iters' = iters + 1
    /\ UNCHANGED <<ctext, copts, cleaned, chunks>>
    /\ UNCHANGED NotChunk

ChunkNext ==
    \/ FixedChunkBegin
    \/ FixedChunkEmit
    \/ FixedChunkSkip

----------------------------------------------------------------------------
(* The recursive, semantic and page chunkers, and the four strategies as calls *)

\* s.indexOf(pattern, fromIndex) for a pattern given as a sequence; -1 if absent
FirstIndexOf(s, pat, fromIndex) ==
    LET hits == {i \in 0..(Len(s) - Len(pat)) :
                    i >= fromIndex /\ \A k \in 1..Len(pat) : s[i + k] = pat[k]}
    IN IF hits = {} THEN -1 ELSE CHOOSE i \in hits : \A j \in hits : i <= j

\* s.split(separator) for a non-empty separator
RECURSIVE SplitOn(_, _)
SplitOn(s, separator) ==
    LET i == FirstIndexOf(s, separator, 0)
    IN IF i = -1 THEN <<s>>
       ELSE <<SubSeq(s, 1, i)>> \o SplitOn(SubSeq(s, i + Len(separator) + 1, Len(s)), separator)

\* .filter((p) => p.trim().length > 0)
NonBlank(parts) == SelectSeq(parts, LAMBDA p : Trim(p) # <<>>)

\* .map((s) => s.trim())
Trimmed(parts) == [k \in 1..Len(parts) |-> Trim(parts[k])]

RECURSIVE Flatten(_)
Flatten(lists) == IF Len(lists) = 0 THEN <<>> ELSE Head(lists) \o Flatten(Tail(lists))

\* s.split(/(?<=[.!?])\s+/): cut at each whitespace run that follows sentence punctuation
RECURSIVE SplitAfterPunctuation(_)
SplitAfterPunctuation(s) ==
    LET cuts == {i \in 1..(Len(s) - 1) : s[i] \in SentencePunctuation /\ s[i + 1] \in Whitespace}
    IN IF cuts = {} THEN <<s>>
       ELSE LET i == CHOOSE c \in cuts : \A d \in cuts : c <= d
                after == {j \in (i + 1)..Len(s) : s[j] \notin Whitespace}
                next == IF after = {} THEN Len(s) + 1
                        ELSE CHOOSE j \in after : \A k \in after : j <= k
            IN <<SubSeq(s, 1, i)>> \o SplitAfterPunctuation(SubSeq(s, next, Len(s)))

\* splitIntoSentences, for texts that hold none of its abbreviations
splitIntoSentences(text) == NonBlank(Trimmed(SplitAfterPunctuation(text)))

\* s.split(/\n\s*\n/): cut at each stretch from a line break to the last line break
\* of the same whitespace run
RECURSIVE SplitAtBlankLines(_)
SplitAtBlankLines(s) ==
    LET RunEnd(i) == IF \A j \in i..Len(s) : s[j] \in Whitespace THEN Len(s)
                     ELSE (CHOOSE j \in i..Len(s) :
                              s[j] \notin Whitespace /\ \A k \in i..(j - 1) : s[k] \in Whitespace) - 1
        LastBreak(i) == SetMax({j \in i..RunEnd(i) : s[j] = LF})
        cuts == {i \in 1..Len(s) : s[i] = LF /\ LastBreak(i) > i}
    IN IF cuts = {} THEN <<s>>
       ELSE LET i == CHOOSE c \in cuts : \A d \in cuts : c <= d
            IN <<SubSeq(s, 1, i - 1)>> \o SplitAtBlankLines(SubSeq(s, LastBreak(i) + 1, Len(s)))

splitIntoParagraphs(text) == NonBlank(Trimmed(SplitAtBlankLines(text)))

\* extractSections, for texts without header lines: the whole text is one section
extractSections(text) ==
    IF Trim(text) # <<>> THEN <<[header |-> <<>>, content |-> Trim(text)]>> ELSE <<>>

SEPARATORS == <<<<LF, LF, LF>>, <<LF, LF>>, <<LF>>, <<".", SP>>, <<",", SP>>, <<SP>>, <<>>>>

\* the pieces text.substring(i, i + chunkSize), i = 0, chunkSize, ...
RECURSIVE CharSlices(_, _)
CharSlices(text, chunkSize) ==
    IF Len(text) = 0 THEN <<>>
    ELSE <<SubSeq(text, 1, Min(Len(text), chunkSize))>>
         \o CharSlices(SubSeq(text, Min(Len(text), chunkSize) + 1, Len(text)), chunkSize)

RECURSIVE splitRecursively(_, _, _)
splitRecursively(text, chunkSize, separators) ==
    IF Len(text) <= chunkSize THEN <<text>>
    ELSE LET separator == Head(separators)
             remainingSeparators == Tail(separators)
             parts == NonBlank(SplitOn(text, separator))
         IN IF separator = <<>> THEN CharSlices(text, chunkSize)
            ELSE IF Len(parts) = 1
              THEN splitRecursively(text, chunkSize, remainingSeparators)
            ELSE Flatten([k \in 1..Len(parts) |->
                            IF Len(parts[k]) <= chunkSize THEN <<parts[k]>>
                            ELSE splitRecursively(parts[k], chunkSize, remainingSeparators)])

OverlapLookaround == 50

getOverlapText(text, overlapSize) ==
    IF Len(text) <= overlapSize THEN text
    ELSE LET overlapStart == Len(text) - overlapSize
             sentences == splitIntoSentences(Substring(text, overlapStart, Len(text)))
             lastSpace == LastIndexOf(text, <<SP>>, overlapStart + OverlapLookaround)
         IN IF Len(sentences) > 1 THEN sentences[Len(sentences)]
            ELSE IF lastSpace > overlapStart - OverlapLookaround
              THEN Substring(text, lastSpace + 1, Len(text))
            ELSE Substring(text, overlapStart, Len(text))

\* the record recursiveChunk pushes for currentChunk
RecursiveChunkData(currentChunk, startChar) ==
    [content |-> Trim(currentChunk), charCount |-> Len(Trim(currentChunk)),
     tokenCount |-> estimateTokens(currentChunk), startChar |-> startChar]

\* `(x ? sep : '')`
JoinerAfter(x, sep) == IF x # <<>> THEN sep ELSE <<>>

\* one iteration of recursiveChunk's loop over rawChunks
MergePiece(st, piece, cleanedText, o) ==
    IF Len(st.currentChunk) + Len(piece) <= o.chunkSize
      THEN [st EXCEPT !.currentChunk = st.currentChunk \o JoinerAfter(st.currentChunk, <<SP>>)
                                       \o piece]
      ELSE LET overlapText == getOverlapText(st.currentChunk, o.chunkOverlap)
           IN [chunks |-> IF Len(st.currentChunk) >= o.minChunkSize
                            THEN Append(st.chunks,
                                        RecursiveChunkData(st.currentChunk, st.startChar))
                            ELSE st.chunks,
               startChar |-> FirstIndexOf(cleanedText, piece, st.startChar),
               currentChunk |-> overlapText \o JoinerAfter(overlapText, <<SP>>) \o piece]

RECURSIVE MergePieces(_, _, _, _, _)
MergePieces(st, rawChunks, i, cleanedText, o) ==
    IF i > Len(rawChunks) THEN st
    ELSE MergePieces(MergePiece(st, rawChunks[i], cleanedText, o), rawChunks, i + 1,
                     cleanedText, o)

\* what a strategy returns, with the text it held when it reached the end of the document
Chunked(list, lastHeld) == [chunks |-> list, remainder |-> lastHeld, returns |-> TRUE]

\* a call that is still in its loop after every possible window start was used
Unfinished(list, lastHeld) == [chunks |-> list, remainder |-> lastHeld, returns |-> FALSE]

recursiveChunk(text, o) ==
    LET cleanedText == cleanTextForChunking(text)
        rawChunks == splitRecursively(cleanedText, o.chunkSize, SEPARATORS)
        st == MergePieces([chunks |-> <<>>, startChar |-> 0, currentChunk |-> <<>>],
                          rawChunks, 1, cleanedText, o)
    IN Chunked(IF Len(Trim(st.currentChunk)) >= o.minChunkSize
                 THEN Append(st.chunks, RecursiveChunkData(st.currentChunk, st.startChar))
                 ELSE st.chunks,
               st.currentChunk)

\* createChunkData of the semantic chunker
createChunkData(chunkText, header) ==
    [content |-> Trim(chunkText), charCount |-> Len(Trim(chunkText)),
     tokenCount |-> estimateTokens(Trim(chunkText)), header |-> header]

RECURSIVE LastSentencesFrom(_, _, _, _)
LastSentencesFrom(sentences, i, result, targetLength) ==
    IF i < 1 THEN result
    ELSE LET newResult == sentences[i] \o (IF result # <<>> THEN <<SP>> \o result ELSE <<>>)
         IN IF Len(newResult) > targetLength THEN result
            ELSE LastSentencesFrom(sentences, i - 1, newResult, targetLength)

getLastSentences(text, targetLength) ==
    LastSentencesFrom(splitIntoSentences(text), Len(splitIntoSentences(text)), <<>>,
                      targetLength)

getSemanticOverlap(text, targetLength) ==
    LET paragraphs == splitIntoParagraphs(text)
    IN IF Len(paragraphs) > 0 /\ Len(paragraphs[Len(paragraphs)]) <= targetLength
         THEN paragraphs[Len(paragraphs)]
         ELSE getLastSentences(text, targetLength)

\* `if (currentChunk.length >= minChunkSize) chunks.push(createChunkData(...))`
PushIfBigEnough(list, currentChunk, header, o) ==
    IF Len(currentChunk) >= o.minChunkSize
      THEN Append(list, createChunkData(currentChunk, header))
      ELSE list

\* one iteration of chunkBySentences' loop
AddSentence(st, sentence, o) ==
    IF Len(st.currentChunk) + Len(sentence) + 1 > o.chunkSize
      THEN LET lastSentences == getLastSentences(st.currentChunk, o.chunkOverlap)
           IN [chunks |-> PushIfBigEnough(st.chunks, st.currentChunk, Undefined, o),
               currentChunk |-> lastSentences \o JoinerAfter(lastSentences, <<SP>>)
                                \o sentence]
      ELSE [st EXCEPT !.currentChunk = st.currentChunk \o JoinerAfter(st.currentChunk, <<SP>>)
                                       \o sentence]

RECURSIVE AddSentences(_, _, _, _)
AddSentences(st, sentences, i, o) ==
    IF i > Len(sentences) THEN st
    ELSE AddSentences(AddSentence(st, sentences[i], o), sentences, i + 1, o)

chunkBySentences(text, o) ==
    LET st == AddSentences([chunks |-> <<>>, currentChunk |-> <<>>],
                           splitIntoSentences(text), 1, o)
    IN Chunked(PushIfBigEnough(st.chunks, st.currentChunk, Undefined, o), st.currentChunk)

\* `{...sc, metadata: {...sc.metadata, header: currentHeader}}`
WithHeader(list, header) == [k \in 1..Len(list) |-> [list[k] EXCEPT !.header = header]]

\* one iteration of semanticChunk's loop over the paragraphs of a section; held is
\* the text last kept back for a later chunk
AddParagraph(st, paragraph, header, o) ==
    IF Len(paragraph) > o.chunkSize
      THEN [chunks |-> PushIfBigEnough(st.chunks, st.currentChunk, header, o)
                       \o WithHeader(chunkBySentences(paragraph, o).chunks, header),
            currentChunk |-> <<>>,
            held |-> chunkBySentences(paragraph, o).remainder]
    ELSE IF Len(st.currentChunk) + Len(paragraph) + 2 > o.chunkSize
      THEN LET overlap == getSemanticOverlap(st.currentChunk, o.chunkOverlap)
               next == overlap \o JoinerAfter(overlap, <<LF, LF>>) \o paragraph
           IN [chunks |-> PushIfBigEnough(st.chunks, st.currentChunk, header, o),
               currentChunk |-> next,
               held |-> next]
    ELSE LET next == st.currentChunk \o JoinerAfter(st.currentChunk, <<LF, LF>>) \o paragraph
         IN [chunks |-> st.chunks, currentChunk |-> next, held |-> next]

RECURSIVE AddParagraphs(_, _, _, _, _)
AddParagraphs(st, paragraphs, i, header, o) ==
    IF i > Len(paragraphs) THEN st
    ELSE AddParagraphs(AddParagraph(st, paragraphs[i], header, o), paragraphs, i + 1,
                       header, o)

\* the body of semanticChunk's loop over sections
AddSection(st, section, o) ==
    LET after == AddParagraphs([st EXCEPT !.currentChunk = <<>>],
                               splitIntoParagraphs(section.content), 1, section.header, o)
    IN [after EXCEPT !.chunks = PushIfBigEnough(after.chunks, after.currentChunk,
                                                section.header, o)]

RECURSIVE AddSections(_, _, _, _)
AddSections(st, sections, i, o) ==
    IF i > Len(sections) THEN st
    ELSE AddSections(AddSection(st, sections[i], o), sections, i + 1, o)

semanticChunk(text, o) ==
    LET st == AddSections([chunks |-> <<>>, currentChunk |-> <<>>, held |-> <<>>],
                          extractSections(cleanTextForChunking(text)), 1, o)
    IN Chunked(st.chunks, st.held)

\* the while loop of fixedChunk from window start pos, n iterations done
RECURSIVE FixedLoop(_, _, _, _, _, _)
FixedLoop(cleanedText, o, pos, list, lastHeld, n) ==
    IF ~(pos < Len(cleanedText)) THEN Chunked(list, lastHeld)
    ELSE IF n >= IterationLimit(cleanedText, o) THEN Unfinished(list, lastHeld)
    ELSE IF WindowSkipped(cleanedText, pos, o)
      THEN FixedLoop(cleanedText, o,
                     NextStartAfterSkip(WindowEnd(cleanedText, pos, o), o),
                     list, WindowContent(cleanedText, pos, o), n + 1)
    ELSE FixedLoop(cleanedText, o,
                   NextStartAfterChunk(pos, WindowEnd(cleanedText, pos, o), o),
                   Append(list, ChunkData(WindowContent(cleanedText, pos, o), pos,
                                          WindowEnd(cleanedText, pos, o))),
                   WindowContent(cleanedText, pos, o), n + 1)

fixedChunk(text, o) == FixedLoop(cleanTextForChunking(text), o, 0, <<>>, <<>>, 0)

\* `{...chunk, metadata: {...chunk.metadata, pageNumber}}`
WithPageNumber(list, pageNumber) ==
    [k \in 1..Len(list) |->
        [content |-> list[k].content, charCount |-> list[k].charCount,
         tokenCount |-> list[k].tokenCount, startChar |-> list[k].startChar,
         endChar |-> list[k].endChar, pageNumber |-> pageNumber]]

\* the body of pageChunk's loop over pages
AddPage(st, page, o) ==
    LET cleanedText == cleanTextForChunking(page.text)
        pageChunks == fixedChunk(cleanedText, o)
    IN IF ~st.returns THEN st
       ELSE IF Len(cleanedText) <= o.chunkSize
         THEN IF Len(cleanedText) > 0
                THEN Chunked(Append(st.chunks,
                                    [content |-> cleanedText, charCount |-> Len(cleanedText),
                                     tokenCount |-> estimateTokens(cleanedText),
                                     pageNumber |-> page.pageNumber]),
                             cleanedText)
                ELSE st
       ELSE IF pageChunks.returns
         THEN Chunked(st.chunks \o WithPageNumber(pageChunks.chunks, page.pageNumber),
                      pageChunks.remainder)
       ELSE Unfinished(st.chunks, pageChunks.remainder)

RECURSIVE AddPages(_, _, _, _)
AddPages(st, pages, i, o) ==
    IF i > Len(pages) THEN st ELSE AddPages(AddPage(st, pages[i], o), pages, i + 1, o)

pageChunk(pages, o) == AddPages(Chunked(<<>>, <<>>), pages, 1, o)

DocChars == {"a", ".", ",", SP, LF}

\* the documents given to the strategies: every short text, and longer ones that
\* split into several pieces
DocTexts ==
    UNION {[1..n -> DocChars] : n \in 0..MaxDocLen}
    \cup {<<"a", "a", "a", "a", SP, LF, "a">>, <<"a", ".", SP, "a", ",", SP, "a", "a">>,
          <<"a", "a", LF, LF, "a", ".", SP, "a", ".">>}

PageTexts == {<<>>, <<SP>>, <<"a">>, <<"a", "a", SP, "a">>, <<"a", ".", SP, "a", "a", "a">>}

PageLists ==
    UNION {[1..n -> {[pageNumber |-> k, text |-> t] : k \in {1}, t \in PageTexts}]
              : n \in 0..2}

Numbered(pages) == [k \in 1..Len(pages) |-> [pages[k] EXCEPT !.pageNumber = k]]

DocChunkSizeChoices == {3, 5}
DocChunkOverlapChoices == {0, 1}
DocMinChunkSizeChoices == {0, 2}

DocOptions(sentenceChoices) ==
    [chunkSize : DocChunkSizeChoices, chunkOverlap : DocChunkOverlapChoices,
     minChunkSize : DocMinChunkSizeChoices, preserveSentences : sentenceChoices]

Strategies == {"fixed", "recursive", "semantic", "page"}

NoChunks == [chunks |-> <<>>, remainder |-> <<>>, returns |-> FALSE]

StrategyIdle ==
    /\ strategy = "fixed"
    /\ gtext = <<>>
    /\ gpages = <<>>
    /\ gopts = ScenarioOptions
    /\ gresult = NoChunks
    /\ gpc = "idle"

StrategyStart ==
    /\ strategy \in Strategies
    /\ \/ /\ strategy = "fixed"
          /\ gtext \in DocTexts
          /\ gpages = <<>>
          /\ gopts \in DocOptions(BOOLEAN)
       \/ /\ strategy \in {"recursive", "semantic"}
          /\ gtext \in DocTexts
          /\ gpages = <<>>
          /\ gopts \in DocOptions({FALSE})
       \/ /\ strategy = "page"
          /\ gtext = <<>>
          /\ gpages \in {Numbered(pages) : pages \in PageLists}
          /\ gopts \in DocOptions(BOOLEAN)
    /\ gresult = NoChunks
    /\ gpc = "idle"

\* fixedChunk ends with its chunk list, or stays in its loop
FixedChunkCall ==
    /\ gpc = "idle"
    /\ strategy = "fixed"
    /\ gresult' = fixedChunk(gtext, gopts)
    /\ gpc' = IF fixedChunk(gtext, gopts).returns THEN "returned" ELSE "looping"
    /\ UNCHANGED <<strategy, gtext, gpages, gopts>>
    /\ UNCHANGED NotStrategy

\* recursiveChunk returns its chunk list
RecursiveChunkCall ==
    /\ gpc = "idle"
    /\ strategy = "recursive"
    /\ gresult' = recursiveChunk(gtext, gopts)
    /\ gpc' = IF recursiveChunk(gtext, gopts).returns THEN "returned" ELSE "looping"
    /\ UNCHANGED <<strategy, gtext, gpages, gopts>>
    /\ UNCHANGED NotStrategy

\* semanticChunk returns its chunk list
SemanticChunkCall ==
    /\ gpc = "idle"
    /\ strategy = "semantic"
    /\ gresult' = semanticChunk(gtext, gopts)
    /\ gpc' = IF semanticChunk(gtext, gopts).returns THEN "returned" ELSE "looping"
    /\ UNCHANGED <<strategy, gtext, gpages, gopts>>
    /\ UNCHANGED NotStrategy

\* pageChunk ends with its chunk list, or stays in the loop of fixedChunk
PageChunkCall ==
    /\ gpc = "idle"
    /\ strategy = "page"
    /\ gresult' = pageChunk(gpages, gopts)
    /\ gpc' = IF pageChunk(gpages, gopts).returns THEN "returned" ELSE "looping"
    /\ UNCHANGED <<strategy, gtext, gpages, gopts>>
    /\ UNCHANGED NotStrategy

StrategyNext ==
    \/ FixedChunkCall
    \/ RecursiveChunkCall
    \/ SemanticChunkCall
    \/ PageChunkCall

----------------------------------------------------------------------------
(* Embedding providers' embedBatch and EmbeddingService.embedBatch.  An        *)
(* embedding is represented by the text the vendor computed it for.            *)

\* String.prototype.charCodeAt for the characters used
CharCode ==
    [c \in {"A", "B", "a", "z", ".", SP, LF, CR, TAB} |->
        CASE c = "A" -> 65 [] c = "B" -> 66 [] c = "a" -> 97 [] c = "z" -> 122
          [] c = "." -> 46 [] c = SP -> 32 [] c = LF -> 10 [] c = CR -> 13 [] c = TAB -> 9]

MaxNormalizedLength == 8000

\* text.trim().replace(/\s+/g, ' ').slice(0, 8000)
normalizeText(text) ==
    LET trimmed == Trim(text)
        first == KeepWhere(trimmed, LAMBDA t, i :
                    ~(t[i] \in Whitespace /\ i > 1 /\ t[i - 1] \in Whitespace))
        collapsed == [i \in 1..Len(first) |-> IF first[i] \in Whitespace THEN SP ELSE first[i]]
    IN SubSeq(collapsed, 1, Min(Len(collapsed), MaxNormalizedLength))

Half == 65536

\* `hash = (hash << 5) - hash + char; hash = hash & hash` on a signed 32-bit hash,
\* computed on 16-bit halves
HashStep(hash, char) ==
    LET lo == hash % Half
        hi == ((hash - lo) \div Half) % Half
        lo2 == 31 * lo + char
        hi2 == (31 * hi + (lo2 \div Half)) % Half
    IN (IF hi2 >= Half \div 2 THEN hi2 - Half ELSE hi2) * Half + (lo2 % Half)

RECURSIVE HashFrom(_, _, _)
HashFrom(hash, text, i) ==
    IF i > Len(text) THEN hash ELSE HashFrom(HashStep(hash, CharCode[text[i]]), text, i + 1)

\* `${provider}:${hash}`
getCacheKey(provider, text) == <<provider, HashFrom(0, text, 1)>>

\* the vendor's embedding of a text
VectorOf(text) == [of |-> text]

\* the vendor's answer to a batch request: one embedding per input, in input order
VendorBatch(texts) ==
    [i \in 1..Len(texts) |-> [embedding |-> VectorOf(texts[i]), index |-> i - 1]]

EmbeddingResponse(embeddings, usage) == [embeddings |-> embeddings, usage |-> usage]

\* OpenAIEmbeddingProvider.embedBatchInternal, the request answered
embedBatchInternal(texts) ==
    EmbeddingResponse([i \in 1..Len(texts) |->
                          [embedding |-> VendorBatch(texts)[i].embedding,
                           index |-> VendorBatch(texts)[i].index]],
                      Len(texts))

\* OllamaEmbeddingProvider.embedBatchNative, the request answered
embedBatchNative(texts) ==
    EmbeddingResponse([i \in 1..Len(texts) |->
                          [embedding |-> VendorBatch(texts)[i].embedding, index |-> i - 1]],
                      Undefined)

\* OllamaEmbeddingProvider.embedBatchSequential, every embed answered
embedBatchSequential(texts) ==
    EmbeddingResponse([i \in 1..Len(texts) |->
                          [embedding |-> VendorBatch(<<texts[i]>>)[1].embedding,
                           index |-> i - 1]],
                      Undefined)

\* the slices texts.slice(i, i + maxBatchSize) of processBatches
RECURSIVE BatchSlices(_, _)
BatchSlices(texts, maxBatchSize) ==
    IF Len(texts) = 0 THEN <<>>
    ELSE <<SubSeq(texts, 1, Min(Len(texts), maxBatchSize))>>
         \o BatchSlices(SubSeq(texts, Min(Len(texts), maxBatchSize) + 1, Len(texts)),
                        maxBatchSize)

RECURSIVE FlatEmbeddings(_)
FlatEmbeddings(responses) ==
    IF Len(responses) = 0 THEN <<>>
    ELSE Head(responses).embeddings \o FlatEmbeddings(Tail(responses))

RECURSIVE SumUsage(_)
SumUsage(responses) ==
    IF Len(responses) = 0 THEN 0 ELSE Head(responses).usage + SumUsage(Tail(responses))

\* the index given to the embedding at position i of the merged list (`currentIndex++`)
MergedIndex(i) == i - 1

mergeResponses(responses) ==
    IF Len(responses) = 1 THEN responses[1]
    ELSE LET flat == FlatEmbeddings(responses)
         IN EmbeddingResponse([i \in 1..Len(flat) |->
                                  [embedding |-> flat[i].embedding,
                                   index |-> MergedIndex(i)]],
                              SumUsage(responses))

processBatches(texts, maxBatchSize) ==
    LET slices == BatchSlices(texts, maxBatchSize)
    IN mergeResponses([k \in 1..Len(slices) |-> embedBatchInternal(slices[k])])

\* provider.embedBatch(texts) when the vendor answers; path is "native" or, for
\* Ollama after a failed native request, "sequential"
ProviderEmbedBatch(c, texts, path) ==
    IF Len(texts) = 0 THEN EmbeddingResponse(<<>>, Undefined)
    ELSE IF c.provider = "openai"
      THEN IF Len(texts) > c.maxBatchSize THEN processBatches(texts, c.maxBatchSize)
           ELSE embedBatchInternal(texts)
    ELSE IF path = "native" THEN embedBatchNative(texts)
    ELSE embedBatchSequential(texts)

ProviderPaths(c) == IF c.provider = "ollama" THEN {"native", "sequential"} ELSE {"native"}

NoResponse == [embeddings |-> <<>>, usage |-> Undefined]

\* `this.cache && !options?.skipCache` and the key is present
CacheHit(c, store, o, text) ==
    /\ c.enableCaching
    /\ ~o.skipCache
    /\ getCacheKey(c.provider, text) \in DOMAIN store

\* the positions of texts the loop of embedBatch sends to the provider / serves from the cache
ToEmbed(c, store, o, texts) ==
    {i \in 1..Len(texts) :
        /\ normalizeText(texts[i]) # <<>>
        /\ ~CacheHit(c, store, o, normalizeText(texts[i]))}

FromCache(c, store, o, texts) ==
    {i \in 1..Len(texts) :
        /\ normalizeText(texts[i]) # <<>>
        /\ CacheHit(c, store, o, normalizeText(texts[i]))}

\* the numbers of S in ascending order
RECURSIVE SortedSeq(_)
SortedSeq(S) ==
    IF S = {} THEN <<>>
    ELSE LET m == CHOOSE i \in S : \A j \in S : i <= j
         IN <<m>> \o SortedSeq(S \ {m})

\* the elements At(i), i in S, in ascending order of i
Ascending(S, At(_)) == [k \in 1..Cardinality(S) |-> At(SortedSeq(S)[k])]

\* [...].sort((a, b) => a.index - b.index)
SortByIndex(results) ==
    LET byIndex(i) == CHOOSE r \in {results[k] : k \in 1..Len(results)} : r.index = i
    IN Ascending({results[k].index : k \in 1..Len(results)}, byIndex)

\* this.cache.set(...) for the first n of the new results, in order
RECURSIVE CacheAfter(_, _, _, _)
CacheAfter(c, store, pending, n) ==
    IF n = 0 THEN store
    ELSE LET before == CacheAfter(c, store, pending, n - 1)
             key == getCacheKey(c.provider, pending[n].text)
         IN [k \in DOMAIN before \cup {key} |->
                IF k = key THEN VectorOf(pending[n].text) ELSE before[k]]

BatchTexts ==
    {<<SP>>, <<"A", "a">>, <<"B", "B">>, <<"A", SP, SP, "a">>}

BatchInputs == UNION {[1..n -> BatchTexts] : n \in 0..MaxBatchLen}

BatchOptions == [continueOnError : BOOLEAN, skipCache : BOOLEAN]

ServiceConfigs ==
    [provider : {"openai", "ollama"}, maxBatchSize : {2}, enableCaching : BOOLEAN]

EmptyCache == [k \in {} |-> VectorOf(<<>>)]

BatchIdle ==
    /\ bcfg = [provider |-> "openai", maxBatchSize |-> 2, enableCaching |-> FALSE]
    /\ cache = EmptyCache
    /\ btexts = <<>>
    /\ bopts = [continueOnError |-> FALSE, skipCache |-> FALSE]
    /\ normalized = <<>>
    /\ cachedResults = <<>>
    /\ presponse = NoResponse
    /\ bresult = NoResponse
    /\ bpc = "ready"
    /\ ncalls = 0

BatchStart ==
    /\ bcfg \in ServiceConfigs
    /\ cache = EmptyCache
    /\ btexts = <<>>
    /\ bopts = [continueOnError |-> FALSE, skipCache |-> FALSE]
    /\ normalized = <<>>
    /\ cachedResults = <<>>
    /\ presponse = NoResponse
    /\ bresult = NoResponse
    /\ bpc = "ready"
    /\ ncalls = 0

\* EmbeddingService.embedBatch up to the call of the provider, or to its early return or throw
EmbedBatchBegin(texts, o) ==
    /\ bpc \in {"ready", "returned", "failed"}
    /\ ncalls < MaxServiceCalls
    /\ ncalls' = ncalls + 1
    /\ btexts' = texts
    /\ bopts' = o
    /\ presponse' = NoResponse
    /\ LET pending == Ascending(ToEmbed(bcfg, cache, o, texts),
                                LAMBDA i : [text |-> normalizeText(texts[i]),
                                            originalIndex |-> i - 1])
           hits == Ascending(FromCache(bcfg, cache, o, texts),
                             LAMBDA i : [embedding |->
                                            cache[getCacheKey(bcfg.provider,
                                                              normalizeText(texts[i]))],
                                         index |-> i - 1])
           emptyAt == {i \in 1..Len(texts) : normalizeText(texts[i]) = <<>>}
       IN IF Len(texts) = 0
            THEN /\ bpc' = "returned"
                 /\ bresult' = NoResponse
                 /\ normalized' = <<>>
                 /\ cachedResults' = <<>>
          ELSE IF emptyAt # {} /\ ~o.continueOnError
            THEN /\ bpc' = "failed"
                 /\ bresult' = NoResponse
                 /\ normalized' = <<>>
                 /\ cachedResults' = <<>>
          ELSE IF Len(pending) = 0
            THEN /\ bpc' = "returned"
                 /\ bresult' = EmbeddingResponse(hits, Undefined)
                 /\ normalized' = pending
                 /\ cachedResults' = hits
          ELSE /\ bpc' = "embedding"
               /\ bresult' = NoResponse
               /\ normalized' = pending
               /\ cachedResults' = hits
    /\ UNCHANGED <<bcfg, cache>>
    /\ UNCHANGED NotBatch

\* provider.embedBatch returns; the rest of EmbeddingService.embedBatch
ProviderReturns(path) ==
    /\ bpc = "embedding"
    /\ path \in ProviderPaths(bcfg)
    /\ LET answer == ProviderEmbedBatch(bcfg, [i \in 1..Len(normalized) |->
                                                    normalized[i].text], path)
           newResults == [idx \in 1..Len(answer.embeddings) |->
                             [embedding |-> answer.embeddings[idx].embedding,
                              index |-> normalized[idx].originalIndex]]
       IN /\ presponse' = answer
          /\ cache' = IF bcfg.enableCaching
                        THEN CacheAfter(bcfg, cache, normalized, Len(answer.embeddings))
                        ELSE cache
          /\ bresult' = EmbeddingResponse(SortByIndex(cachedResults \o newResults),
                                          answer.usage)
    /\ bpc' = "returned"
    /\ UNCHANGED <<bcfg, btexts, bopts, normalized, cachedResults, ncalls>>
    /\ UNCHANGED NotBatch

\* provider.embedBatch throws (retries exhausted, or a fatal error)
ProviderThrows ==
    /\ bpc = "embedding"
    /\ bpc' = "failed"
    /\ UNCHANGED <<bcfg, cache, btexts, bopts, normalized, cachedResults, presponse,
                   bresult, ncalls>>
    /\ UNCHANGED NotBatch

BatchNext ==
    \/ \E texts \in BatchInputs, o \in BatchOptions : EmbedBatchBegin(texts, o)
    \/ \E path \in {"native", "sequential"} : ProviderReturns(path)
    \/ ProviderThrows

----------------------------------------------------------------------------
(* OllamaEmbeddingProvider.embedBatch: the native request and the per-text      *)
(* fallback, with the embed calls as requests in flight                        *)

FallbackTexts == {<<"A", "a">>, <<"B", "B">>}

FallbackInputs == UNION {[1..n -> FallbackTexts] : n \in 0..MaxBatchLen}

NoEmbeddings == [i \in {} |-> VectorOf(<<>>)]

FallbackIdle ==
    /\ otexts = <<>>
    /\ oinflight = {}
    /\ oembedded = NoEmbeddings
    /\ ofailed = {}
    /\ onative = "none"
    /\ oresult = NoResponse
    /\ opc = "idle"

FallbackStart ==
    /\ otexts \in FallbackInputs
    /\ oinflight = {}
    /\ oembedded = NoEmbeddings
    /\ ofailed = {}
    /\ onative = "none"
    /\ oresult = NoResponse
    /\ opc = "idle"

\* embedBatch: the empty batch returns at once, any other sends the native request
OllamaEmbedBatchBegin ==
    /\ opc = "idle"
    /\ IF Len(otexts) = 0
         THEN opc' = "returned" /\ oresult' = EmbeddingResponse(<<>>, Undefined)
         ELSE opc' = "native" /\ oresult' = oresult
    /\ UNCHANGED <<otexts, oinflight, oembedded, ofailed, onative>>
    /\ UNCHANGED NotFallback

\* embedBatchNative resolves
NativeBatchReturns ==
    /\ opc = "native"
    /\ opc' = "returned"
    /\ oresult' = embedBatchNative(otexts)
    /\ onative' = "returned"
    /\ UNCHANGED <<otexts, oinflight, oembedded, ofailed>>
    /\ UNCHANGED NotFallback

\* embedBatchNative rejects; the catch calls embedBatchSequential, whose
\* texts.map(async ...) starts the embed call of every text before any has returned
NativeBatchThrows ==
    /\ opc = "native"
    /\ opc' = "fallback"
    /\ onative' = "failed"
    /\ oinflight' = 1..Len(otexts)
    /\ UNCHANGED <<otexts, oembedded, ofailed, oresult>>
    /\ UNCHANGED NotFallback

\* the embed call of text i resolves; Promise.all resolves with the last one
EmbedReturns(i) ==
    /\ i \in oinflight
    /\ oinflight' = oinflight \ {i}
    /\ oembedded' = [k \in DOMAIN oembedded \cup {i} |->
                        IF k = i THEN VendorBatch(<<otexts[i]>>)[1].embedding
                        ELSE oembedded[k]]
    /\ IF opc = "fallback" /\ DOMAIN oembedded' = 1..Len(otexts)
         THEN /\ opc' = "returned"
              /\ oresult' = EmbeddingResponse([k \in 1..Len(otexts) |->
                                                  [embedding |-> oembedded'[k],
                                                   index |-> k - 1]],
                                              Undefined)
         ELSE UNCHANGED <<opc, oresult>>
    /\ UNCHANGED <<otexts, ofailed, onative>>
    /\ UNCHANGED NotFallback

\* the embed call of text i rejects; Promise.all rejects with the first rejection
EmbedThrows(i) ==
    /\ i \in oinflight
    /\ oinflight' = oinflight \ {i}
    /\ ofailed' = ofailed \cup {i}
    /\ opc' = IF opc = "fallback" THEN "failed" ELSE opc
    /\ UNCHANGED <<otexts, oembedded, onative, oresult>>
    /\ UNCHANGED NotFallback

FallbackNext ==
    \/ OllamaEmbedBatchBegin
    \/ NativeBatchReturns
    \/ NativeBatchThrows
    \/ \E i \in 1..MaxBatchLen : EmbedReturns(i)
    \/ \E i \in 1..MaxBatchLen : EmbedThrows(i)

-----------------------------------------------------------------------------
(* complete() of the four LLM providers: one attempt, from the request to the  *)
(* parsed response or the error raised for a non-2xx response                  *)

\* a vendor's HTTP response; retryAfter is the header's digits (<<>>: no header),
\* message the words of the error message, finish the finish / stop reason
\* ("": the field is missing), candidates whether Gemini sent a candidate
Reply(status, retryAfter, json, code, type, message, finish, candidates) ==
    [status |-> status, retryAfter |-> retryAfter, json |-> json, code |-> code,
     type |-> type, message |-> message, finish |-> finish, candidates |-> candidates]

ErrorStatuses == {400, 401, 403, 404, 429, 500, 503}

RetryAfterHeaders == {<<>>, <<"0">>, <<"2">>}

ErrorCodes == {"", "context_length_exceeded", "content_filter"}

ErrorTypes == {"", "invalid_request_error"}

ErrorMessages == {<<>>, <<"bad">>, <<"token">>, <<"SAFETY">>, <<"blocked">>}

ErrorReplies ==
    {Reply(st, h, j, c, t, m, "", FALSE) :
        st \in ErrorStatuses, h \in RetryAfterHeaders, j \in BOOLEAN,
        c \in ErrorCodes, t \in ErrorTypes, m \in ErrorMessages}

OkReplies(v) ==
    {Reply(200, <<>>, TRUE, "", "", <<>>, f, c) :
        f \in VendorFinishReasons(v) \cup {""},
        c \in IF v = "google" THEN BOOLEAN ELSE {TRUE}}

DigitValue(d) ==
    CASE d = "0" -> 0 [] d = "1" -> 1 [] d = "2" -> 2 [] d = "3" -> 3 [] d = "4" -> 4
      [] d = "5" -> 5 [] d = "6" -> 6 [] d = "7" -> 7 [] d = "8" -> 8 [] d = "9" -> 9

\* parseInt of a string of decimal digits
RECURSIVE parseInt(_)
parseInt(digits) ==
    IF digits = <<>> THEN 0
    ELSE 10 * parseInt(SubSeq(digits, 1, Len(digits) - 1)) + DigitValue(digits[Len(digits)])

\* `retryAfter ? parseInt(retryAfter) * 1000 : undefined`
RetryAfterMs(r) == IF r.retryAfter = <<>> THEN Undefined ELSE parseInt(r.retryAfter) * 1000

\* `errorBody.error?.message || errorMessage`, the default when response.json() throws
ErrorMessageOf(r) == IF r.json /\ r.message # <<>> THEN r.message ELSE <<"error">>

\* `errorBody.error?.code || ''`
ErrorCodeOf(r) == IF r.json THEN r.code ELSE ""

\* `errorBody.error?.type || ''`
ErrorTypeOf(r) == IF r.json THEN r.type ELSE ""

\* String.prototype.includes for one word
Includes(message, word) == \E i \in 1..Len(message) : message[i] = word

HttpCode(status) == "HTTP_" \o ToString(status)

\* the closing `throw new LLMError(errorMessage, name, HTTP_<status>, status >= 500)`
HttpError(r) == ProviderError(HttpCode(r.status), r.status >= 500, NoId)

AuthError == ProviderError("AUTH_ERROR", FALSE, NoId)

OpenAIHandleErrorResponse(r) ==
    CASE r.status = 429 -> RateLimitError(RetryAfterMs(r), NoId)
      [] r.status # 429 /\ ErrorCodeOf(r) = "context_length_exceeded" ->
           ProviderError("CONTEXT_LENGTH", FALSE, NoId)
      [] r.status # 429 /\ ErrorCodeOf(r) = "content_filter" ->
           ProviderError("CONTENT_FILTER", FALSE, NoId)
      [] OTHER -> IF r.status \in {401, 403} THEN AuthError ELSE HttpError(r)

AnthropicHandleErrorResponse(r) ==
    CASE r.status = 429 -> RateLimitError(RetryAfterMs(r), NoId)
      [] r.status # 429 /\ ErrorTypeOf(r) = "invalid_request_error"
                        /\ Includes(ErrorMessageOf(r), "token") ->
           ProviderError("CONTEXT_LENGTH", FALSE, NoId)
      [] OTHER -> IF r.status \in {401, 403} THEN AuthError ELSE HttpError(r)

GoogleHandleErrorResponse(r) ==
    CASE r.status = 429 -> RateLimitError(Undefined, NoId)
      [] r.status # 429 /\ (\/ Includes(ErrorMessageOf(r), "SAFETY")
                            \/ Includes(ErrorMessageOf(r), "blocked")) ->
           ProviderError("CONTENT_FILTER", FALSE, NoId)
      [] OTHER -> IF r.status \in {401, 403} THEN AuthError ELSE HttpError(r)

OllamaHandleErrorResponse(r) ==
    IF r.status = 404 THEN ProviderError("MODEL_NOT_FOUND", FALSE, NoId) ELSE HttpError(r)

handleErrorResponse(v, r) ==
    CASE v = "openai" -> OpenAIHandleErrorResponse(r)
      [] v = "anthropic" -> AnthropicHandleErrorResponse(r)
      [] v = "google" -> GoogleHandleErrorResponse(r)
      [] v = "ollama" -> OllamaHandleErrorResponse(r)

Returned(fin) == [kind |-> "response", finishReason |-> fin, error |-> NoError]
Thrown(e) == [kind |-> "error", finishReason |-> "", error |-> e]
NoOutcome == [kind |-> "none", finishReason |-> "", error |-> NoError]

\* parseResponse; Gemini's throws NO_CANDIDATES when the response has no candidate
parseResponse(v, r) ==
    IF v = "google" /\ ~r.candidates
    THEN Thrown(ProviderError("NO_CANDIDATES", FALSE, NoId))
    ELSE Returned(mapFinishReason(v, r.finish))

NoReply == Reply(0, <<>>, FALSE, "", "", <<>>, "", FALSE)

CompleteIdle ==
    /\ lvendor = "openai"
    /\ lreply = NoReply
    /\ loutcome = NoOutcome
    /\ lpc = "idle"

CompleteStart ==
    /\ lvendor \in Vendors
    /\ lreply = NoReply
    /\ loutcome = NoOutcome
    /\ lpc = "idle"

\* complete(): the request is built and fetchWithTimeout is awaited
CompleteBegin ==
    /\ lpc = "idle"
    /\ lpc' = "sent"
    /\ UNCHANGED <<lvendor, lreply, loutcome>>
    /\ UNCHANGED NotComplete

\* `if (!response.ok) await this.handleErrorResponse(response)`
ErrorReplyArrives ==
    /\ lpc = "sent"
    /\ \E r \in ErrorReplies :
         /\ lreply' = r
         /\ loutcome' = Thrown(handleErrorResponse(lvendor, r))
    /\ lpc' = "threw"
    /\ UNCHANGED lvendor
    /\ UNCHANGED NotComplete

\* `return this.parseResponse(await response.json())`
OkReplyArrives ==
    /\ lpc = "sent"
    /\ \E r \in OkReplies(lvendor) :
         /\ lreply' = r
         /\ loutcome' = parseResponse(lvendor, r)
         /\ lpc' = IF parseResponse(lvendor, r).kind = "response" THEN "returned" ELSE "threw"
    /\ UNCHANGED lvendor
    /\ UNCHANGED NotComplete

CompleteNext == CompleteBegin \/ ErrorReplyArrives \/ OkReplyArrives

-----------------------------------------------------------------------------
(* formatMessages and buildRequestBody of the Anthropic and Gemini providers.  *)
(* A message is [role, content], the content a sequence of characters.         *)

Message(role, text) == [role |-> role, content |-> text]

Roles == {"system", "user", "assistant"}

MessageContents == {<<>>, <<"a">>, <<"b">>}

ChatMessages == {Message(role, text) : role \in Roles, text \in MessageContents}

MessageLists == UNION {[1..n -> ChatMessages] : n \in 0..MaxMessages}

\* `let systemPrompt: string | undefined`
NoSystemPrompt == [defined |-> FALSE, text |-> <<>>]

\* `systemPrompt = systemPrompt ? `${systemPrompt}\n\n${message.content}` : message.content`
AddSystemReversed(sp, text) ==
    IF sp.defined /\ sp.text # <<>>
    THEN [defined |-> TRUE, text |-> text \o <<LF, LF>> \o sp.text]
    ELSE [defined |-> TRUE, text |-> text]
AddSystem(sp, text) ==
    IF sp.defined /\ sp.text # <<>>
    THEN [defined |-> TRUE, text |-> sp.text \o <<LF, LF>> \o text]
    ELSE [defined |-> TRUE, text |-> text]

\* the role pushed for a non-system message: Anthropic keeps it, Gemini maps
\* assistant to model and everything else to user
VendorRole(v, role) ==
    IF v = "anthropic" THEN role
    ELSE IF role = "assistant" THEN "model" ELSE "user"

\* the synthetic turn: { role: 'user', content: 'Hello' }
Hello == Message("user", <<"H", "e", "l", "l", "o">>)

\* `if (list.length > 0 && list[0].role !== 'user') list.unshift(hello)`
StartWithUser(list) ==
    IF Len(list) > 0 /\ list[1].role # "user" THEN <<Hello>> \o list ELSE list

\* the `for (const message of messages)` loop, from message k on
RECURSIVE FormatFrom(_, _, _, _, _)
FormatFrom(v, msgs, k, sp, out) ==
    IF k > Len(msgs) THEN [systemPrompt |-> sp, formattedMessages |-> StartWithUser(out)]
    ELSE IF msgs[k].role = "system"
         THEN FormatFrom(v, msgs, k + 1, AddSystem(sp, msgs[k].content), out)
         ELSE FormatFrom(v, msgs, k + 1, sp,
                         Append(out, Message(VendorRole(v, msgs[k].role), msgs[k].content)))

formatMessages(v, msgs) == FormatFrom(v, msgs, 1, NoSystemPrompt, <<>>)

\* buildRequestBody: `if (systemPrompt) body.system = systemPrompt`
buildRequestBody(f) ==
    [hasSystem |-> f.systemPrompt.defined /\ f.systemPrompt.text # <<>>,
     system |-> f.systemPrompt.text,
     messages |-> f.formattedMessages]

NoRequest == [hasSystem |-> FALSE, system |-> <<>>, messages |-> <<>>]

FormatIdle ==
    /\ mvendor = "anthropic"
    /\ messages = <<>>
    /\ mrequest = NoRequest
    /\ mpc = "idle"

FormatStart ==
    /\ mvendor \in {"anthropic", "google"}
    /\ messages \in MessageLists
    /\ mrequest = NoRequest
    /\ mpc = "idle"

\* AnthropicLLMProvider.complete / stream up to the fetch
AnthropicSendsRequest ==
    /\ mpc = "idle"
    /\ mvendor = "anthropic"
    /\ mrequest' = buildRequestBody(formatMessages("anthropic", messages))
    /\ mpc' = "sent"
    /\ UNCHANGED <<mvendor, messages>>
    /\ UNCHANGED NotFormat

\* GoogleLLMProvider.complete / stream up to the fetch
GoogleSendsRequest ==
    /\ mpc = "idle"
    /\ mvendor = "google"
    /\ mrequest' = buildRequestBody(formatMessages("google", messages))
    /\ mpc' = "sent"
    /\ UNCHANGED <<mvendor, messages>>
    /\ UNCHANGED NotFormat

FormatNext == AnthropicSendsRequest \/ GoogleSendsRequest

-----------------------------------------------------------------------------
(* healthCheck() of the two embedding providers and the four LLM providers *)

HealthProviders ==
    {"openaiEmbedding", "ollamaEmbedding", "openaiLLM", "anthropicLLM", "googleLLM",
     "ollamaLLM"}

\* the two Ollama providers read the /api/tags body, the others only response.ok
ReadsTags(p) == p \in {"ollamaEmbedding", "ollamaLLM"}

\* this.model / this.config.defaultModel
ConfiguredModel == <<"m">>

\* an entry of tags.models; hasName is FALSE for an entry without a name
ModelEntry(hasName, name) == [hasName |-> hasName, name |-> name]

ModelEntries ==
    {ModelEntry(TRUE, <<"m">>), ModelEntry(TRUE, <<"m", ":", "l">>),
     ModelEntry(TRUE, <<"m", "x">>), ModelEntry(TRUE, <<"o">>), ModelEntry(FALSE, <<>>)}

\* a response body: text that is no JSON, the JSON null, or an object with or
\* without a models array
Body(json, hasModels, models) == [json |-> json, hasModels |-> hasModels, models |-> models]

Bodies ==
    {Body("invalid", FALSE, <<>>), Body("null", FALSE, <<>>), Body("object", FALSE, <<>>)}
    \cup {Body("object", TRUE, ms) : ms \in UNION {[1..n -> ModelEntries] : n \in 0..MaxModels}}

HealthStatuses == {200, 204, 304, 401, 500}

\* what the request met
Met(kind, status, body) == [kind |-> kind, status |-> status, body |-> body]

NothingMet == Met("none", 0, Body("invalid", FALSE, <<>>))

\* response.ok
Ok(status) == status >= 200 /\ status <= 299

StartsWith(s, prefix) == Len(s) >= Len(prefix) /\ SubSeq(s, 1, Len(prefix)) = prefix

\* models.some(m => m.name === model || m.name.startsWith(`${model}:`)), from
\* entry k on; startsWith of a missing name throws a TypeError
RECURSIVE ModelExists(_, _)
ModelExists(models, k) ==
    IF k > Len(models) THEN "false"
    ELSE IF ~models[k].hasName THEN "threw"
    ELSE IF models[k].name = ConfiguredModel
            \/ StartsWith(models[k].name, ConfiguredModel \o <<":">>)
         THEN "true"
    ELSE ModelExists(models, k + 1)

\* the statements inside `try { ... }`: "threw" when one of them throws
TryBody(p, met) ==
    CASE met.kind \in {"unreachable", "timeout"} -> "threw"
      [] met.kind = "response" /\ ~Ok(met.status) -> "false"
      [] met.kind = "response" /\ Ok(met.status) /\ ~ReadsTags(p) -> "true"
      [] OTHER ->
           CASE met.body.json = "invalid" -> "threw"
             [] met.body.json = "null" -> "threw"
             [] OTHER -> ModelExists(IF met.body.hasModels THEN met.body.models ELSE <<>>, 1)

\* `catch { return false }`
CatchNothing(tried) == tried
Catch(tried) == IF tried = "threw" THEN "false" ELSE tried

healthCheck(p, met) == Catch(TryBody(p, met))

HealthIdle ==
    /\ hprovider = "openaiLLM"
    /\ hreply = NothingMet
    /\ hresult = "none"
    /\ hpc = "idle"

HealthStart ==
    /\ hprovider \in HealthProviders
    /\ hreply = NothingMet
    /\ hresult = "none"
    /\ hpc = "idle"

\* healthCheck(): await this.fetchWithTimeout(...)
HealthCheckBegin ==
    /\ hpc = "idle"
    /\ hpc' = "waiting"
    /\ UNCHANGED <<hprovider, hreply, hresult>>
    /\ UNCHANGED NotHealth

\* fetch rejects: the endpoint is unreachable
EndpointUnreachable ==
    /\ hpc = "waiting"
    /\ hreply' = Met("unreachable", 0, Body("invalid", FALSE, <<>>))
    /\ hresult' = healthCheck(hprovider, hreply')
    /\ hpc' = "done"
    /\ UNCHANGED hprovider
    /\ UNCHANGED NotHealth

\* the abort timer fires first: fetchWithTimeout throws the timeout error
RequestTimesOut ==
    /\ hpc = "waiting"
    /\ hreply' = Met("timeout", 0, Body("invalid", FALSE, <<>>))
    /\ hresult' = healthCheck(hprovider, hreply')
    /\ hpc' = "done"
    /\ UNCHANGED hprovider
    /\ UNCHANGED NotHealth

\* a response arrives
ResponseArrives ==
    /\ hpc = "waiting"
    /\ \E status \in HealthStatuses : \E body \in Bodies :
         hreply' = Met("response", status, body)
    /\ hresult' = healthCheck(hprovider, hreply')
    /\ hpc' = "done"
    /\ UNCHANGED hprovider
    /\ UNCHANGED NotHealth

HealthNext == HealthCheckBegin \/ EndpointUnreachable \/ RequestTimesOut \/ ResponseArrives

-----------------------------------------------------------------------------
(* ChunkingService.chunkDocument / rechunkDocument on one knowledge base: the  *)
(* invocations are async functions whose awaits interleave; the chunk          *)
(* collection is shared                                                        *)

Invocations == 1..MaxInvocations

\* the number of chunks a strategy call returns for the document, by the options
ChunkCounts == {1, 2, 3}

\* chunkDataList of invocation i: n chunks, the content naming the invocation
\* (the options differ between invocations, and with them the chunks)
ChunkDataList(i, n) == [k \in 1..n |-> [content |-> <<i, k>>]]

\* saveChunks: `chunks.map((chunk, index) => ({..., chunkIndex: index, content}))`
ChunkDocs(list) == {[chunkIndex |-> k - 1, content |-> list[k].content] : k \in 1..Len(list)}

RechunkIdle ==
    /\ kpc = [i \in Invocations |-> "idle"]
    /\ kchunks = [i \in Invocations |-> <<>>]
    /\ chunkCollection = {}
    /\ kbStatus = "pending"

RechunkStart ==
    /\ kpc = [i \in Invocations |-> "idle"]
    /\ \E counts \in [Invocations -> ChunkCounts] :
         kchunks = [i \in Invocations |-> ChunkDataList(i, counts[i])]
    /\ chunkCollection = {}
    /\ kbStatus = "pending"

\* chunkDocument / rechunkDocument up to the status update: the knowledge base and
\* its content are found and processing.status becomes 'chunking'
ChunkDocumentBegin(i) ==
    /\ kpc[i] = "idle"
    /\ kpc' = [kpc EXCEPT ![i] = "chunking"]
    /\ kbStatus' = "chunking"
    /\ UNCHANGED <<kchunks, chunkCollection>>
    /\ UNCHANGED NotRechunk

\* `await ChunkModel.deleteMany({knowledgeBaseId})`
DeleteExistingChunks(i) ==
    /\ kpc[i] = "chunking"
    /\ chunkCollection' = {}
    /\ kpc' = [kpc EXCEPT ![i] = "deleted"]
    /\ UNCHANGED <<kchunks, kbStatus>>
    /\ UNCHANGED NotRechunk

\* the strategy call and `await this.saveChunks(...)`: insertMany adds the documents
SaveChunks(i) ==
    /\ kpc[i] = "deleted"
    /\ chunkCollection' = chunkCollection \cup ChunkDocs(kchunks[i])
    /\ kpc' = [kpc EXCEPT ![i] = "saved"]
    /\ UNCHANGED <<kchunks, kbStatus>>
    /\ UNCHANGED NotRechunk

\* insertMany rejects: the catch sets processing.status 'failed' and rethrows
SaveChunksFails(i) ==
    /\ kpc[i] = "deleted"
    /\ kbStatus' = "failed"
    /\ kpc' = [kpc EXCEPT ![i] = "failed"]
    /\ UNCHANGED <<kchunks, chunkCollection>>
    /\ UNCHANGED NotRechunk

\* the closing findByIdAndUpdate ('completed') and the return of the result
ChunkDocumentReturns(i) ==
    /\ kpc[i] = "saved"
    /\ kbStatus' = "completed"
    /\ kpc' = [kpc EXCEPT ![i] = "returned"]
    /\ UNCHANGED <<kchunks, chunkCollection>>
    /\ UNCHANGED NotRechunk

RechunkNext ==
    \/ \E i \in Invocations : ChunkDocumentBegin(i)
    \/ \E i \in Invocations : DeleteExistingChunks(i)
    \/ \E i \in Invocations : SaveChunks(i)
    \/ \E i \in Invocations : SaveChunksFails(i)
    \/ \E i \in Invocations : ChunkDocumentReturns(i)

-----------------------------------------------------------------------------
(* QueueProducer.retryJob on one persisted job; the calls are async functions  *)
(* whose database and broker awaits interleave                                 *)

RetryCalls == 1..MaxRetryCalls

JobTypes == {"uploaded", "parse", "chunk", "embed"}

\* the fields of the job document retryJob reads and writes
JobDoc(type, att, maxAttempts, status, hasError) ==
    [type |-> type, attempt |-> att, maxAttempts |-> maxAttempts,
     status |-> status, hasError |-> hasError]

\* queueMap = {parse, chunk, embed}: queueMap['uploaded'] is undefined
HasRetryQueue(type) == type \in {"parse", "chunk", "embed"}

RetryCall(pc, loaded, result) == [pc |-> pc, loaded |-> loaded, result |-> result]

NoJob == JobDoc("parse", 1, 1, "pending", FALSE)

JobIdle ==
    /\ job = NoJob
    /\ published = 0
    /\ rjcalls = [c \in RetryCalls |-> RetryCall("idle", NoJob, "none")]

\* the job was created with attempt 1 and published once (queueParse and the
\* like), and its processing failed
JobStart ==
    /\ \E type \in JobTypes : \E maxAttempts \in 1..MaxAttemptsBound :
         job = JobDoc(type, 1, maxAttempts, "failed", TRUE)
    /\ published = 1
    /\ rjcalls = [c \in RetryCalls |-> RetryCall("idle", NoJob, "none")]

\* `job.attempt += 1; job.status = 'retrying'; job.error = undefined`
Retrying(doc) == JobDoc(doc.type, doc.attempt + 1, doc.maxAttempts, "retrying", FALSE)

\* `await JobModel.findOne({jobId})` and the check that follows it
RetryJobFinds(c) ==
    /\ rjcalls[c].pc = "idle"
    /\ rjcalls' = [rjcalls EXCEPT ![c] =
                     IF job.attempt >= job.maxAttempts
                     THEN RetryCall("idle", job, "refused")
                     ELSE RetryCall("saving", job, "none")]
    /\ UNCHANGED <<job, published>>
    /\ UNCHANGED NotJob

\* `await job.save()` writes the modified paths of the loaded document; then the
\* queue is looked up: `queue.routingKey` throws when the type has no queue
RetryJobSaves(c) ==
    /\ rjcalls[c].pc = "saving"
    /\ job' = Retrying(rjcalls[c].loaded)
    /\ rjcalls' = [rjcalls EXCEPT ![c] =
                     IF HasRetryQueue(rjcalls[c].loaded.type)
                     THEN RetryCall("publishing", rjcalls[c].loaded, "none")
                     ELSE RetryCall("idle", rjcalls[c].loaded, "threw")]
    /\ UNCHANGED published
    /\ UNCHANGED NotJob

\* `await this.publish(...)` resolves
RetryJobPublished(c) ==
    /\ rjcalls[c].pc = "publishing"
    /\ published' = published + 1
    /\ rjcalls' = [rjcalls EXCEPT ![c] = RetryCall("idle", rjcalls[c].loaded, "retried")]
    /\ UNCHANGED job
    /\ UNCHANGED NotJob

\* `await this.publish(...)` rejects: connect() or channel.publish failed
RetryJobPublishFails(c) ==
    /\ rjcalls[c].pc = "publishing"
    /\ rjcalls' = [rjcalls EXCEPT ![c] = RetryCall("idle", rjcalls[c].loaded, "threw")]
    /\ UNCHANGED <<job, published>>
    /\ UNCHANGED NotJob

JobNext ==
    \/ \E c \in RetryCalls : RetryJobFinds(c)
    \/ \E c \in RetryCalls : RetryJobSaves(c)
    \/ \E c \in RetryCalls : RetryJobPublished(c)
    \/ \E c \in RetryCalls : RetryJobPublishFails(c)

-----------------------------------------------------------------------------
(* The provider caches: LLMService.getProvider and the getOrCreate of the two  *)
(* factories.  An instance is named by the path that constructed it and the    *)
(* provider type and model it was configured with.                             *)

ProviderTypes == {"openai", "ollama"}

Models == {"m1", "m2"}

CachePaths == {"service", "llmFactory", "embeddingFactory"}

\* the key under which a path stores and looks up an instance: LLMService uses
\* `this.providers.has(providerType)`, the factories `${provider}:${defaultModel}`
CacheKey(path, type, m) == IF path = "service" THEN <<type>> ELSE <<type, m>>

Instance(path, type, m) == [madeBy |-> path, provider |-> type, model |-> m]

Answer(path, type, m, inst) == [path |-> path, provider |-> type, model |-> m, instance |-> inst]

\* `if (!map.has(key)) map.set(key, create(...)); return map.get(key)`
GetOrCreate(map, key, fresh) == IF key \in DOMAIN map THEN map ELSE map @@ (key :> fresh)

\* the map of a path after a request for (type, m) through it
Requested(path, type, m) ==
    GetOrCreate(pcaches[path], CacheKey(path, type, m), Instance(path, type, m))

ProvidersIdle ==
    /\ pcaches = [path \in CachePaths |-> <<>>]
    /\ handed = {}

\* LLMService.getProvider(providerType, model)
GetProvider ==
    /\ \E type \in ProviderTypes : \E m \in Models :
         LET map == Requested("service", type, m)
         IN /\ pcaches' = [pcaches EXCEPT !["service"] = map]
            /\ handed' = handed \cup {Answer("service", type, m, map[<<type>>])}
    /\ UNCHANGED NotProviders

\* LLMProviderFactory.getOrCreate(config)
LLMGetOrCreate ==
    /\ \E type \in ProviderTypes : \E m \in Models :
         LET map == Requested("llmFactory", type, m)
         IN /\ pcaches' = [pcaches EXCEPT !["llmFactory"] = map]
            /\ handed' = handed \cup {Answer("llmFactory", type, m, map[<<type, m>>])}
    /\ UNCHANGED NotProviders

\* EmbeddingProviderFactory.getOrCreate(config)
EmbeddingGetOrCreate ==
    /\ \E type \in ProviderTypes : \E m \in Models :
         LET map == Requested("embeddingFactory", type, m)
         IN /\ pcaches' = [pcaches EXCEPT !["embeddingFactory"] = map]
            /\ handed' = handed \cup {Answer("embeddingFactory", type, m, map[<<type, m>>])}
    /\ UNCHANGED NotProviders

ProvidersNext == GetProvider \/ LLMGetOrCreate \/ EmbeddingGetOrCreate

----------------------------------------------------------------------------
(* LLMService.truncateHistory: the newest messages that fit a token budget.    *)

MaxTokenBudget == 3

\* LLMService.estimateTokens is Math.ceil(text.length / 4), as estimateTokens of
\* textUtils above

\* Array.prototype.splice(start, 0, item): start is clamped to the length
SpliceIn(list, start, item) ==
    LET at == Min(start, Len(list))
    IN SubSeq(list, 1, at) \o <<item>> \o SubSeq(list, at + 1, Len(list))

\* `messages.filter((m) => m.role !== 'system')`
NonSystemMessages(list) == SelectSeq(list, LAMBDA m : m.role # "system")

\* `messages.find((m) => m.role === 'system')`, as a list of at most one message
FirstSystemMessage(list) ==
    LET found == SelectSeq(list, LAMBDA m : m.role = "system")
    IN IF found = <<>> THEN <<>> ELSE <<Head(found)>>

RECURSIVE TokenSum(_)
TokenSum(list) ==
    IF list = <<>> THEN 0 ELSE estimateTokens(Head(list).content) + TokenSum(Tail(list))

\* the `for (let i = nonSystemMessages.length - 1; i >= 0; i--)` loop from index i
\* (1-based) on, with the result and the tokens counted so far
RECURSIVE TruncateFrom(_, _, _, _, _, _)
TruncateFrom(others, i, result, currentTokens, budget, preserve) ==
    IF i = 0 THEN result
    ELSE IF currentTokens + estimateTokens(others[i].content) > budget THEN result
    ELSE TruncateFrom(others, i - 1,
                      SpliceIn(result, IF preserve THEN 1 ELSE 0, others[i]),
                      currentTokens + estimateTokens(others[i].content),
                      budget, preserve)

truncateHistory(list, budget, preserve) ==
    LET first == IF preserve THEN FirstSystemMessage(list) ELSE <<>>
        others == NonSystemMessages(list)
    IN TruncateFrom(others, Len(others), first, TokenSum(first), budget, preserve)

TruncateIdle ==
    /\ history = <<>>
    /\ maxTokens = 0
    /\ preserveSystem = TRUE
    /\ truncated = <<>>
    /\ tpc = "idle"

TruncateStart ==
    /\ history \in MessageLists
    /\ maxTokens \in 0..MaxTokenBudget
    /\ preserveSystem \in BOOLEAN
    /\ truncated = <<>>
    /\ tpc = "idle"

TruncateHistoryReturns ==
    /\ tpc = "idle"
    /\ truncated' = truncateHistory(history, maxTokens, preserveSystem)
    /\ tpc' = "returned"
    /\ UNCHANGED <<history, maxTokens, preserveSystem>>
    /\ UNCHANGED NotTruncate

TruncateNext ==
    \/ TruncateHistoryReturns

----------------------------------------------------------------------------
(* RabbitMQConnection: the connection manager of the queue.  The fields of the *)
(* manager are gathered in a record so that connect() and handleDisconnect()   *)
(* can be applied one after the other inside one step.                         *)

MaxConnections == 3
MaxTimers == 2

\* queueConfig.rabbitmq.maxReconnectAttempts
maxReconnectAttempts == 10

Manager(conn, chan, connecting, attempts, pc, waiting) ==
    [connection |-> conn, channel |-> chan, isConnecting |-> connecting,
     reconnectAttempts |-> attempts, qpc |-> pc, timers |-> waiting]

This == Manager(connection, channel, isConnecting, reconnectAttempts, qpc, timers)

\* handleDisconnect up to `await this.delay(...)`: the fields are cleared and, below
\* the limit, a reconnect is scheduled
HandleDisconnect(m) ==
    LET cleared == [m EXCEPT !.channel = 0, !.connection = 0]
    IN IF m.reconnectAttempts >= maxReconnectAttempts THEN cleared
       ELSE [cleared EXCEPT !.reconnectAttempts = @ + 1, !.timers = @ + 1]

RECURSIVE HandleDisconnects(_, _)
HandleDisconnects(m, times) ==
    IF times = 0 THEN m ELSE HandleDisconnects(HandleDisconnect(m), times - 1)

\* connect() up to its first await: returns when connected, waits for the events of
\* the attempt in flight when there is one, starts an attempt otherwise
ConnectCall(m) ==
    IF m.connection # 0 /\ m.channel # 0 THEN m
    ELSE IF m.isConnecting THEN m
    ELSE [m EXCEPT !.isConnecting = TRUE, !.qpc = "connecting"]

\* the catch block of connect()
ConnectCatch(m) == HandleDisconnect([m EXCEPT !.isConnecting = FALSE, !.qpc = "none"])

ConnectionIdle ==
    /\ connection = 0
    /\ channel = 0
    /\ isConnecting = FALSE
    /\ reconnectAttempts = 0
    /\ qpc = "none"
    /\ qconn = 0
    /\ brokerOpen = {}
    /\ opened = 0
    /\ timers = 0
    /\ closedByCaller = FALSE

\* QueueProducer.publish, or any other caller, calls connect()
Connect ==
    /\ LET m == ConnectCall(This)
       IN /\ isConnecting' = m.isConnecting
          /\ qpc' = m.qpc
    /\ closedByCaller' = FALSE
    /\ UNCHANGED <<connection, channel, reconnectAttempts, qconn, brokerOpen, opened, timers>>
    /\ UNCHANGED NotConnection

\* `this.connection = await amqp.connect(...)` resolves; the error and close
\* handlers are registered on the new connection
AmqpConnectResolves ==
    /\ qpc = "connecting"
    /\ opened < MaxConnections
    /\ opened' = opened + 1
    /\ brokerOpen' = brokerOpen \cup {opened + 1}
    /\ connection' = opened + 1
    /\ qconn' = opened + 1
    /\ qpc' = "channel"
    /\ UNCHANGED <<channel, isConnecting, reconnectAttempts, timers, closedByCaller>>
    /\ UNCHANGED NotConnection

\* amqp.connect rejects: catch block
AmqpConnectRejects ==
    /\ qpc = "connecting"
    /\ timers < MaxTimers
    /\ LET m == ConnectCatch(This)
       IN /\ connection' = m.connection
          /\ channel' = m.channel
          /\ isConnecting' = m.isConnecting
          /\ reconnectAttempts' = m.reconnectAttempts
          /\ qpc' = m.qpc
          /\ timers' = m.timers
    /\ UNCHANGED <<qconn, brokerOpen, opened, closedByCaller>>
    /\ UNCHANGED NotConnection

\* `this.channel = await this.connection.createConfirmChannel()` resolves; the
\* connection is the one the attempt obtained, whatever this.connection holds now
CreateChannelResolves ==
    /\ qpc = "channel"
    /\ qconn \in brokerOpen
    /\ channel' = qconn
    /\ qpc' = "topology"
    /\ UNCHANGED <<connection, isConnecting, reconnectAttempts, qconn, brokerOpen, opened,
                   timers, closedByCaller>>
    /\ UNCHANGED NotConnection

\* createConfirmChannel rejects: catch block; the connection obtained is not closed
CreateChannelRejects ==
    /\ qpc = "channel"
    /\ timers < MaxTimers
    /\ LET m == ConnectCatch(This)
       IN /\ connection' = m.connection
          /\ channel' = m.channel
          /\ isConnecting' = m.isConnecting
          /\ reconnectAttempts' = m.reconnectAttempts
          /\ qpc' = m.qpc
          /\ timers' = m.timers
    /\ UNCHANGED <<qconn, brokerOpen, opened, closedByCaller>>
    /\ UNCHANGED NotConnection

\* setupTopology resolves: the attempt succeeded
SetupTopologyResolves ==
    /\ qpc = "topology"
    /\ channel = qconn
    /\ qconn \in brokerOpen
    /\ isConnecting' = FALSE
    /\ reconnectAttempts' = 0
    /\ qpc' = "none"
    /\ UNCHANGED <<connection, channel, qconn, brokerOpen, opened, timers, closedByCaller>>
    /\ UNCHANGED NotConnection

\* setupTopology rejects or finds this.channel null: catch block
SetupTopologyRejects ==
    /\ qpc = "topology"
    /\ timers < MaxTimers
    /\ LET m == ConnectCatch(This)
       IN /\ connection' = m.connection
          /\ channel' = m.channel
          /\ isConnecting' = m.isConnecting
          /\ reconnectAttempts' = m.reconnectAttempts
          /\ qpc' = m.qpc
          /\ timers' = m.timers
    /\ UNCHANGED <<qconn, brokerOpen, opened, closedByCaller>>
    /\ UNCHANGED NotConnection

\* a connection is lost: it emits close, or error and then close, and each event
\* runs handleDisconnect
ConnectionLost ==
    \E n \in brokerOpen : \E events \in 1..2 :
        /\ timers + events <= MaxTimers
        /\ brokerOpen' = brokerOpen \ {n}
        /\ LET m == HandleDisconnects(This, events)
           IN /\ connection' = m.connection
              /\ channel' = m.channel
              /\ reconnectAttempts' = m.reconnectAttempts
              /\ timers' = m.timers
        /\ UNCHANGED <<isConnecting, qpc, qconn, opened, closedByCaller>>
        /\ UNCHANGED NotConnection

\* the channel is closed by the broker while its connection stays open:
\* `this.channel.on('close', () => { this.channel = null })`
ChannelCloses ==
    /\ channel # 0
    /\ channel' = 0
    /\ UNCHANGED <<connection, isConnecting, reconnectAttempts, qpc, qconn, brokerOpen,
                   opened, timers, closedByCaller>>
    /\ UNCHANGED NotConnection

\* the delay of a handleDisconnect call is over: `await this.connect()`
ReconnectTimerFires ==
    /\ timers > 0
    /\ LET m == ConnectCall([This EXCEPT !.timers = @ - 1])
       IN /\ isConnecting' = m.isConnecting
          /\ qpc' = m.qpc
          /\ timers' = m.timers
    /\ UNCHANGED <<connection, channel, reconnectAttempts, qconn, brokerOpen, opened,
                   closedByCaller>>
    /\ UNCHANGED NotConnection

\* close(): the channel and the connection are closed; the connection closed emits
\* close, and the handler registered by connect() runs handleDisconnect
Close ==
    /\ timers < MaxTimers
    /\ brokerOpen' = brokerOpen \ {connection}
    /\ LET m == IF connection # 0 THEN HandleDisconnect(This)
                ELSE [This EXCEPT !.channel = 0]
       IN /\ connection' = m.connection
          /\ channel' = m.channel
          /\ reconnectAttempts' = m.reconnectAttempts
          /\ timers' = m.timers
    /\ closedByCaller' = TRUE
    /\ UNCHANGED <<isConnecting, qpc, qconn, opened>>
    /\ UNCHANGED NotConnection

ConnectionNext ==
    \/ Connect
    \/ AmqpConnectResolves
    \/ AmqpConnectRejects
    \/ CreateChannelResolves
    \/ CreateChannelRejects
    \/ SetupTopologyResolves
    \/ SetupTopologyRejects
    \/ ConnectionLost
    \/ ChannelCloses
    \/ ReconnectTimerFires
    \/ Close

----------------------------------------------------------------------------
(* Database.connect: the MongoDB connection with its retry loop.               *)

MaxDbCalls == 2

\* dbConfig.retry.maxAttempts
RetryMaxAttempts == 5

DbCalls == 1..MaxDbCalls

\* `while (this.connectionAttempts < retry.maxAttempts) { try { this.connectionAttempts++`
\* and, when the condition is false, the end of the function: it returns undefined
LoopHeadPc(attempts) ==
    IF attempts < RetryMaxAttempts THEN "connecting" ELSE "returnedNothing"

LoopHeadAttempts(attempts) ==
    IF attempts < RetryMaxAttempts THEN attempts + 1 ELSE attempts

DatabaseIdle ==
    /\ connectionAttempts = 0
    /\ dbConnected = FALSE
    /\ dpc = [c \in DbCalls |-> "idle"]
    /\ dfailed = [c \in DbCalls |-> 0]

\* connect() is called
DatabaseConnect(c) ==
    /\ dpc[c] = "idle"
    /\ dpc' = [dpc EXCEPT ![c] = LoopHeadPc(connectionAttempts)]
    /\ connectionAttempts' = LoopHeadAttempts(connectionAttempts)
    /\ UNCHANGED <<dbConnected, dfailed>>
    /\ UNCHANGED NotDatabase

\* mongoose.connect resolves: the connection is returned
MongooseConnectResolves(c) ==
    /\ dpc[c] = "connecting"
    /\ dbConnected' = TRUE
    /\ connectionAttempts' = 0
    /\ dpc' = [dpc EXCEPT ![c] = "returned"]
    /\ UNCHANGED dfailed
    /\ UNCHANGED NotDatabase

\* mongoose.connect rejects: the catch block throws at the limit, sleeps otherwise
MongooseConnectRejects(c) ==
    /\ dpc[c] = "connecting"
    /\ dfailed' = [dfailed EXCEPT ![c] = @ + 1]
    /\ dpc' = [dpc EXCEPT ![c] = IF connectionAttempts >= RetryMaxAttempts
                                   THEN "thrown" ELSE "sleeping"]
    /\ UNCHANGED <<connectionAttempts, dbConnected>>
    /\ UNCHANGED NotDatabase

\* `await this.sleep(delay)` is over: back to the loop condition
SleepEnds(c) ==
    /\ dpc[c] = "sleeping"
    /\ dpc' = [dpc EXCEPT ![c] = LoopHeadPc(connectionAttempts)]
    /\ connectionAttempts' = LoopHeadAttempts(connectionAttempts)
    /\ UNCHANGED <<dbConnected, dfailed>>
    /\ UNCHANGED NotDatabase

DatabaseNext ==
    \/ \E c \in DbCalls : DatabaseConnect(c)
    \/ \E c \in DbCalls : MongooseConnectResolves(c)
    \/ \E c \in DbCalls : MongooseConnectRejects(c)
    \/ \E c \in DbCalls : SleepEnds(c)

----------------------------------------------------------------------------
(* EmbeddingService with enableCaching: what embed and embedBatch read from and *)
(* write to the cache.  The provider answers every request.                    *)

Served(text, embedding, hit) == [text |-> text, embedding |-> embedding, hit |-> hit]

\* the service: `if (config?.enableCaching) this.cache = new Map()`
CachingService(provider) == [provider |-> provider, enableCaching |-> TRUE]

\* what a call returns for one normalized text, read before the provider is called:
\* `const cached = this.cache.get(cacheKey); if (cached) return cached`
ServeOne(provider, store, text, skipCache) ==
    IF CacheHit(CachingService(provider), store, [skipCache |-> skipCache], text)
      THEN Served(text, store[getCacheKey(provider, text)], TRUE)
      ELSE Served(text, VectorOf(text), FALSE)

CacheIdle ==
    /\ eprovider = "openai"
    /\ ecache = EmptyCache
    /\ served = <<>>
    /\ ecalls = 0

CacheStart ==
    /\ eprovider \in {"openai", "ollama"}
    /\ ecache = EmptyCache
    /\ served = <<>>
    /\ ecalls = 0

\* EmbeddingService.embed: throws on an empty text, returns the cached embedding on
\* a hit, otherwise asks the provider and stores the answer
Embed ==
    \E text \in BatchTexts, skipCache \in BOOLEAN :
        /\ ecalls < MaxServiceCalls
        /\ ecalls' = ecalls + 1
        /\ LET normalizedText == normalizeText(text)
               one == ServeOne(eprovider, ecache, normalizedText, skipCache)
           IN IF normalizedText = <<>>
                THEN /\ served' = <<>>
                     /\ ecache' = ecache
                ELSE /\ served' = <<one>>
                     /\ ecache' = IF one.hit THEN ecache
                                  ELSE CacheAfter(CachingService(eprovider), ecache,
                                                  <<[text |-> normalizedText]>>, 1)
        /\ UNCHANGED eprovider
        /\ UNCHANGED NotCache

\* EmbeddingService.embedBatch: throws on an empty text, serves the hits from the
\* cache as it was when the call began, asks the provider for the other texts and
\* stores their embeddings
EmbedBatch ==
    \E texts \in BatchInputs, skipCache \in BOOLEAN :
        /\ ecalls < MaxServiceCalls
        /\ ecalls' = ecalls + 1
        /\ LET all == [i \in 1..Len(texts) |->
                          ServeOne(eprovider, ecache, normalizeText(texts[i]), skipCache)]
               misses == SelectSeq(all, LAMBDA s : ~s.hit)
           IN IF \E i \in 1..Len(texts) : normalizeText(texts[i]) = <<>>
                THEN /\ served' = <<>>
                     /\ ecache' = ecache
                ELSE /\ served' = all
                     /\ ecache' = CacheAfter(CachingService(eprovider), ecache,
                                             misses, Len(misses))
        /\ UNCHANGED eprovider
        /\ UNCHANGED NotCache

CacheNext ==
    \/ Embed
    \/ EmbedBatch

----------------------------------------------------------------------------
(* Specifications *)

\* every subsystem other than those named in S is at rest
Quiet(S) ==
    /\ IF "retry" \in S THEN TRUE ELSE RetryIdle
    /\ IF "fetch" \in S THEN TRUE ELSE FetchIdle
    /\ IF "stream" \in S THEN TRUE ELSE StreamIdle
    /\ IF "chunk" \in S THEN TRUE ELSE ChunkIdle
    /\ IF "batch" \in S THEN TRUE ELSE BatchIdle
    /\ IF "strategy" \in S THEN TRUE ELSE StrategyIdle
    /\ IF "fallback" \in S THEN TRUE ELSE FallbackIdle
    /\ IF "complete" \in S THEN TRUE ELSE CompleteIdle
    /\ IF "format" \in S THEN TRUE ELSE FormatIdle
    /\ IF "health" \in S THEN TRUE ELSE HealthIdle
    /\ IF "rechunk" \in S THEN TRUE ELSE RechunkIdle
    /\ IF "job" \in S THEN TRUE ELSE JobIdle
    /\ IF "providers" \in S THEN TRUE ELSE ProvidersIdle
    /\ IF "truncate" \in S THEN TRUE ELSE TruncateIdle
    /\ IF "connection" \in S THEN TRUE ELSE ConnectionIdle
    /\ IF "database" \in S THEN TRUE ELSE DatabaseIdle
    /\ IF "cache" \in S THEN TRUE ELSE CacheIdle

RetryInit == RetryStart /\ Quiet({"retry"})

\* one call at a time, every kind of error
RetryNext ==
    \/ WithRetryStart(1)
    \/ OperationSucceeds(1)
    \/ OperationFails(1)
    \/ SleepDone(1)

SpecRetry == RetryInit /\ [][RetryNext]_vars

\* NumCalls calls interleaved on the same provider instance
ConcurrentNext ==
    \E c \in Calls :
        \/ WithRetryStart(c)
        \/ OperationSucceeds(c)
        \/ OperationFailsConcurrently(c)
        \/ SleepDone(c)

SpecConcurrent == RetryInit /\ [][ConcurrentNext]_vars

FetchInit == FetchStart /\ Quiet({"fetch"})

FetchNext ==
    \/ FetchBegin
    \/ Tick
    \/ TimerFires
    \/ HeadersArrive
    \/ NetworkFails
    \/ BodyPieceArrives
    \/ BodyComplete

SpecFetch == FetchInit /\ [][FetchNext]_vars

StreamInit ==
    /\ StreamStart
    /\ Quiet({"stream", "retry"})
    /\ cfg \in [kind : {"llm"}, maxRetries : 0..MaxStreamRetries, retryDelayMs : {1000}]
    /\ rpc = [c \in Calls |-> "idle"]
    /\ attempt = [c \in Calls |-> 0]
    /\ lastError = [c \in Calls |-> NoError]
    /\ invocations = [c \in Calls |-> 0]
    /\ failures = [c \in Calls |-> 0]
    /\ sleepMs = [c \in Calls |-> Undefined]
    /\ sleeps = [c \in Calls |-> 0]
    /\ outcome = [c \in Calls |-> NoError]

StreamNext ==
    \/ StreamAttemptBegin
    \/ ReadLine
    \/ ReadLineHead
    \/ ReadLineTail
    \/ ReadDone
    \/ ReadFails

SpecStream == StreamInit /\ [][StreamNext]_vars

ChunkInit == ChunkStart /\ Quiet({"chunk"})

SpecChunk == ChunkInit /\ [][ChunkNext]_vars

BatchInit == BatchStart /\ Quiet({"batch"})

SpecBatch == BatchInit /\ [][BatchNext]_vars

StrategyInit == StrategyStart /\ Quiet({"strategy"})

SpecStrategy == StrategyInit /\ [][StrategyNext]_vars

FallbackInit == FallbackStart /\ Quiet({"fallback"})

CompleteInit == CompleteStart /\ Quiet({"complete"})

FormatInit == FormatStart /\ Quiet({"format"})

HealthInit == HealthStart /\ Quiet({"health"})

RechunkInit == RechunkStart /\ Quiet({"rechunk"})

JobInit == JobStart /\ Quiet({"job"})

ProvidersInit == ProvidersIdle /\ Quiet({"providers"})

SpecFallback == FallbackInit /\ [][FallbackNext]_vars

SpecComplete == CompleteInit /\ [][CompleteNext]_vars

SpecFormat == FormatInit /\ [][FormatNext]_vars

SpecHealth == HealthInit /\ [][HealthNext]_vars

SpecRechunk == RechunkInit /\ [][RechunkNext]_vars

SpecJob == JobInit /\ [][JobNext]_vars

SpecProviders == ProvidersInit /\ [][ProvidersNext]_vars

TruncateInit == TruncateStart /\ Quiet({"truncate"})

SpecTruncate == TruncateInit /\ [][TruncateNext]_vars

ConnectionInit == ConnectionIdle /\ Quiet({"connection"})

SpecConnection == ConnectionInit /\ [][ConnectionNext]_vars

DatabaseInit == DatabaseIdle /\ Quiet({"database"})

SpecDatabase == DatabaseInit /\ [][DatabaseNext]_vars

CacheInit == CacheStart /\ Quiet({"cache"})

SpecCache == CacheInit /\ [][CacheNext]_vars

----------------------------------------------------------------------------
(* Properties of the resilience core *)

Finished(c) == rpc[c] \in {"returned", "thrown"}

Exhausted(c) == rpc[c] = "thrown" /\ outcome[c].code = "MAX_RETRIES_EXCEEDED"

\* C1: a call whose every attempt failed with a retryable error has invoked the
\* operation exactly maxRetries+1 times and ends with a non-retryable
\* MAX_RETRIES_EXCEEDED error whose cause is the last attempt's error; no call
\* ever invokes the operation more than maxRetries+1 times.
C1_RetryBound ==
    \A c \in Calls :
        /\ invocations[c] <= cfg.maxRetries + 1
        /\ (Finished(c) /\ failures[c] = invocations[c]) =>
              /\ rpc[c] = "thrown"
              /\ outcome[c].code = "MAX_RETRIES_EXCEEDED"
              /\ outcome[c].retryable = FALSE
              /\ invocations[c] = cfg.maxRetries + 1
              /\ lastError[c].id = <<c, invocations[c]>>
              /\ outcome[c].cause = lastError[c].id

C1_Witness ==
    \E c \in Calls :
        /\ cfg.maxRetries = 3
        /\ Exhausted(c)
        /\ invocations[c] = 4
        /\ failures[c] = 4

\* C2: an error marked non-retryable is propagated at once: the caller gets the
\* very error object the operation threw, and when it was thrown by the first
\* attempt the operation ran once and nothing slept.
C2_FatalPropagates ==
    \A c \in Calls :
        MarkedNonRetryable(lastError[c]) =>
            /\ rpc[c] = "thrown"
            /\ outcome[c] = lastError[c]
            /\ outcome[c].code # "MAX_RETRIES_EXCEEDED"
            /\ (lastError[c].id = <<c, 1>> => invocations[c] = 1 /\ sleeps[c] = 0)

C2_Witness ==
    \E c \in Calls :
        /\ rpc[c] = "thrown"
        /\ MarkedNonRetryable(outcome[c])
        /\ outcome[c].id = <<c, 1>>
        /\ invocations[c] = 1

RateLimitedWith(c, d) ==
    /\ rpc[c] \in {"sleeping", "attempting"}
    /\ lastError[c].cls = "RateLimitError"
    /\ lastError[c].retryAfterMs = d

\* C3 (as stated): after a rate-limit error carrying retryAfterMs = d the wait
\* before the next attempt is exactly d, for every explicit d, and attempts
\* stay within maxRetries+1.
C3_RateLimitHonoredAnyDelay ==
    \A c \in Calls :
        /\ invocations[c] <= cfg.maxRetries + 1
        /\ invocations[c] <= sleeps[c] + 1
        /\ \A d \in RetryAfterChoices \ {Undefined} :
               RateLimitedWith(c, d) => sleepMs[c] = d

\* C3 (amended): the same for every explicit d > 0; a retryAfterMs of 0 is
\* treated like a missing one and the exponential backoff is used.
C3_RateLimitHonored ==
    \A c \in Calls :
        /\ invocations[c] <= cfg.maxRetries + 1
        /\ invocations[c] <= sleeps[c] + 1
        /\ \A d \in RetryAfterChoices \ {Undefined} :
               (d > 0 /\ RateLimitedWith(c, d)) => sleepMs[c] = d
        /\ (RateLimitedWith(c, 0) /\ rpc[c] = "sleeping") =>
               \E j \in JitterChoices(cfg.retryDelayMs) :
                   sleepMs[c] = Min(cfg.retryDelayMs * Pow2(failures[c] - 1) + j,
                                    BackoffCap(cfg.kind))

C3_Witness ==
    \E c \in Calls :
        /\ cfg.maxRetries = 3
        /\ rpc[c] = "attempting"
        /\ RateLimitedWith(c, 500)
        /\ invocations[c] = 3
        /\ sleepMs[c] = 500

\* C6: the retry loop is per call: the loop counter of a running call equals
\* the number of its own completed sleeps, its backoff delay is computed from
\* its own failures, and a call that ran out of retries used its full budget,
\* whatever the other calls on the same provider instance did meanwhile.
C6_PerCallBudget ==
    \A c \in Calls :
        /\ rpc[c] = "attempting" => attempt[AttemptSlot(c)] = sleeps[c]
        /\ rpc[c] = "sleeping" => attempt[AttemptSlot(c)] = sleeps[c] - 1
        /\ (rpc[c] = "sleeping"
              /\ ~(lastError[c].cls = "RateLimitError" /\ lastError[c].retryAfterMs > 0)) =>
               \E j \in JitterChoices(cfg.retryDelayMs) :
                   sleepMs[c] = Min(cfg.retryDelayMs * Pow2(failures[c] - 1) + j,
                                    BackoffCap(cfg.kind))
        /\ Exhausted(c) => invocations[c] = cfg.maxRetries + 1

C6_Witness ==
    /\ cfg.maxRetries = 3
    /\ Exhausted(1)
    /\ invocations[1] = 4
    /\ rpc[2] = "sleeping"
    /\ attempt[2] = 0
    /\ invocations[2] = 1

----------------------------------------------------------------------------
(* Properties of the fixed chunker *)

\* C9: fixedChunk terminates for every text and every option set with
\* chunkSize > 0 and chunkOverlap >= 0: every iteration of the loop, whether it
\* pushes a chunk or skips an undersized window, moves the window start
\* forward, so the loop never runs through more iterations than there are
\* window starts.
C9_FixedChunkTerminates ==
    /\ [][cpc = "loop" => startPos' > startPos]_vars
    /\ [](cpc = "loop" => iters < IterationLimit(cleaned, copts))

NoWhitespace(text) == \A i \in 1..Len(text) : text[i] \notin Whitespace

ReachesEnd(chunk) == chunk.endChar >= Len(cleaned)

\* C10: with preserveSentences off and a text without whitespace (overlap below
\* the chunk size, minimum not above it), chunk k starts at
\* k * (chunkSize - chunkOverlap), no content is longer than chunkSize, and the
\* first chunk that reaches the end of the text is the last one; the 2500
\* character text with 1000/200/100 gives exactly 3 chunks, the second starting
\* at 800 and the last one ending the text.
C10_PlainWindows ==
    (/\ cpc = "done"
     /\ ~copts.preserveSentences
     /\ NoWhitespace(ctext)
     /\ copts.chunkOverlap < copts.chunkSize
     /\ copts.minChunkSize <= copts.chunkSize)
    => /\ \A k \in 1..Len(chunks) :
            /\ chunks[k].startChar = (k - 1) * (copts.chunkSize - copts.chunkOverlap)
            /\ chunks[k].charCount <= copts.chunkSize
       /\ \A k \in 1..(Len(chunks) - 1) : ~ReachesEnd(chunks[k])
       /\ (ctext = ScenarioText /\ copts = ScenarioOptions)
            => /\ Len(chunks) = 3
               /\ chunks[2].startChar = 800
               /\ ReachesEnd(chunks[3])

----------------------------------------------------------------------------
(* Properties of the embedding batch path *)

\* embeddings has one entry per text, entry i carries index i and the vector of texts[i]
InInputOrder(embeddings, texts) ==
    /\ Len(embeddings) = Len(texts)
    /\ \A i \in 1..Len(texts) :
          /\ embeddings[i].index = i - 1
          /\ embeddings[i].embedding = VectorOf(texts[i])

\* C5: every embedBatch call on N texts, at the provider and at the
\* EmbeddingService, returns exactly N embeddings in input order, entry i with
\* index i and the vector computed for texts[i], whether the batch was split
\* into sub-batches, took the native or the per-text path, or was partly served
\* from the cache.
C5_OrderPreserved ==
    /\ presponse # NoResponse
          => InInputOrder(presponse.embeddings,
                          [i \in 1..Len(normalized) |-> normalized[i].text])
    /\ bpc = "returned"
          => InInputOrder(bresult.embeddings,
                          [i \in 1..Len(btexts) |-> normalizeText(btexts[i])])

----------------------------------------------------------------------------
(* Properties of the chunking strategies *)

\* the text the strategy was given, cleaned (for pageChunk: page after page)
CleanedInput ==
    IF strategy = "page"
      THEN Flatten([k \in 1..Len(gpages) |-> cleanTextForChunking(gpages[k].text)])
      ELSE cleanTextForChunking(gtext)

Contents == [k \in 1..Len(gresult.chunks) |-> gresult.chunks[k].content]

\* C11: in every strategy the trailing remainder of the document is emitted as
\* the final chunk whatever its size; only chunks before it may be dropped for
\* being shorter than minChunkSize.
C11_FinalChunkKept ==
    (gpc = "returned" /\ Trim(gresult.remainder) # <<>>)
    => \E k \in 1..Len(Contents) :
          /\ Contents[k] = Trim(gresult.remainder)
          /\ \A j \in (k + 1)..Len(Contents) : Contents[j] = <<>>

NonSpace(text) == SelectSeq(text, LAMBDA c : c \notin Whitespace)

\* a can be read off b from left to right
RECURSIVE IsSubsequence(_, _)
IsSubsequence(a, b) ==
    IF a = <<>> THEN TRUE
    ELSE IF b = <<>> THEN FALSE
    ELSE IF Head(a) = Head(b) THEN IsSubsequence(Tail(a), Tail(b))
    ELSE IsSubsequence(a, Tail(b))

\* C12: for each strategy and every non-empty input the chunk contents, read in
\* order, hold all of the cleaned text: none of its characters (whitespace
\* between chunks aside) is missing from the chunks.
C12_Coverage ==
    (gpc = "returned" /\ CleanedInput # <<>>)
    => IsSubsequence(NonSpace(CleanedInput), NonSpace(Flatten(Contents)))

EmptyInput == IF strategy = "page" THEN gpages = <<>> ELSE gtext = <<>>

\* C13: every strategy returns the empty chunk list for empty input (a text of
\* length 0, or no pages), for every option set including minChunkSize = 0.
C13_EmptyInputEmptyList ==
    (gpc # "idle" /\ EmptyInput) => (gpc = "returned" /\ gresult.chunks = <<>>)

\* C14: every chunk record of every strategy has charCount = length(content)
\* and tokenCount = ceil(length(content) / 4).
C14_SizeFieldsDerived ==
    gpc = "returned"
    => \A k \in 1..Len(gresult.chunks) :
          /\ gresult.chunks[k].charCount = Len(gresult.chunks[k].content)
          /\ gresult.chunks[k].tokenCount = estimateTokens(gresult.chunks[k].content)

----------------------------------------------------------------------------
(* Properties of the Ollama batch fallback *)

\* C15: when the native batch call fails, embedBatch does not propagate that
\* failure: it issues one embed call per text, one call in flight at a time and
\* in input order, and returns one embedding per text assembled from them.
C15_SequentialFallback ==
    /\ Cardinality(oinflight) <= 1
    /\ \A i \in oinflight : \A k \in 1..(i - 1) : k \in DOMAIN oembedded
    /\ opc = "failed" => ofailed # {}
    /\ (opc = "returned" /\ onative = "failed")
          => /\ Len(oresult.embeddings) = Len(otexts)
             /\ \A i \in 1..Len(otexts) :
                   oresult.embeddings[i] = [embedding |-> VectorOf(otexts[i]), index |-> i - 1]

----------------------------------------------------------------------------
(* Properties of complete() and of the finish reason *)

\* the vendor's own marks of a context-length and of a content-filter rejection
ContextLengthSignal(v, r) ==
    \/ v = "openai" /\ r.json /\ r.code = "context_length_exceeded"
    \/ v = "anthropic" /\ r.json /\ r.type = "invalid_request_error"
                       /\ Includes(r.message, "token")

ContentFilterSignal(v, r) ==
    \/ v = "openai" /\ r.json /\ r.code = "content_filter"
    \/ v = "google" /\ r.json /\ (Includes(r.message, "SAFETY") \/ Includes(r.message, "blocked"))

\* C16: for every LLM provider and every error response the raised error follows
\* the shared taxonomy: 429 gives a retryable rate-limit error carrying the
\* retry-after delay the vendor sent; context-length-exceeded and
\* content-filtered give non-retryable errors; 401/403 give a non-retryable
\* auth error; every 5xx gives a retryable error and every other 4xx a
\* non-retryable one.
C16_ErrorTaxonomy ==
    (lpc = "threw" /\ lreply.status # 200)
    => LET e == loutcome.error
           r == lreply
       IN CASE r.status = 429 ->
                 /\ e.cls = "RateLimitError"
                 /\ e.retryable
                 /\ r.retryAfter # <<>> => e.retryAfterMs = parseInt(r.retryAfter) * 1000
            [] r.status # 429 /\ ContextLengthSignal(lvendor, r) ->
                 e.code = "CONTEXT_LENGTH" /\ ~e.retryable
            [] r.status # 429 /\ ~ContextLengthSignal(lvendor, r)
                              /\ ContentFilterSignal(lvendor, r) ->
                 e.code = "CONTENT_FILTER" /\ ~e.retryable
            [] OTHER ->
                 IF r.status \in {401, 403} THEN e.code = "AUTH_ERROR" /\ ~e.retryable
                 ELSE e.retryable = (r.status >= 500)

NormalFinishReasons == {"stop", "length", "content_filter", "null"}

\* C17: for every LLM provider, for complete() and for stream(), the
\* finishReason of the returned response is one of stop, length, content_filter
\* or null, whatever finish / stop reason string the vendor sent.
C17_FinishReasonNormalized ==
    /\ lpc = "returned" => loutcome.finishReason \in NormalFinishReasons
    /\ spc = "returned" => response.finishReason \in NormalFinishReasons

----------------------------------------------------------------------------
(* Properties of formatMessages *)

SystemMessages == SelectSeq(messages, LAMBDA m : m.role = "system")

OtherMessages == SelectSeq(messages, LAMBDA m : m.role # "system")

\* the non-system messages as the vendor names their roles
OtherMessagesSent ==
    [k \in 1..Len(OtherMessages) |->
        Message(VendorRole(mvendor, OtherMessages[k].role), OtherMessages[k].content)]

SystemTexts == [k \in 1..Len(SystemMessages) |-> SystemMessages[k].content]

WithoutLineBreaks(text) == SelectSeq(text, LAMBDA c : c # LF)

\* C18: for Anthropic and Google and any message list, the system messages are
\* taken out and concatenated in their order into the one system field, the
\* other messages keep their order, and a synthetic user turn is prepended
\* exactly when the first of them is not a user message: the list sent never
\* starts with a non-user message and never holds a system message.
C18_SystemExtracted ==
    mpc = "sent"
    => /\ WithoutLineBreaks(mrequest.system) = Flatten(SystemTexts)
       /\ mrequest.hasSystem = (mrequest.system # <<>>)
       /\ \A k \in 1..Len(mrequest.messages) : mrequest.messages[k].role # "system"
       /\ mrequest.messages # <<>> => mrequest.messages[1].role = "user"
       /\ mrequest.messages =
             IF OtherMessagesSent # <<>> /\ OtherMessagesSent[1].role # "user"
             THEN <<Hello>> \o OtherMessagesSent
             ELSE OtherMessagesSent

\* two system messages with different texts around an assistant message that
\* comes first among the others
C18_Witness ==
    /\ mpc = "sent"
    /\ Len(SystemMessages) >= 2
    /\ SystemMessages[1].content = <<"a">>
    /\ SystemMessages[2].content = <<"b">>
    /\ messages[1].role = "system"
    /\ messages[2].role = "assistant"
    /\ mrequest.messages[1] = Hello
    /\ mrequest.system = <<"a", LF, LF, "b">>

----------------------------------------------------------------------------
(* Properties of healthCheck *)

\* C19: healthCheck() of every provider never throws, and it returns false
\* whenever the endpoint is unreachable, the request times out or the response
\* is not a 2xx one.
C19_HealthCheckNeverThrows ==
    hpc = "done"
    => /\ hresult \in {"true", "false"}
       /\ (\/ hreply.kind \in {"unreachable", "timeout"}
           \/ hreply.kind = "response" /\ ~Ok(hreply.status))
          => hresult = "false"

\* an Ollama check that met an unreachable endpoint, and so a throw inside try
C19_Witness ==
    /\ hpc = "done"
    /\ hprovider = "ollamaEmbedding"
    /\ hreply.kind = "unreachable"
    /\ hresult = "false"

----------------------------------------------------------------------------
(* Properties of re-chunking *)

AllReturned == \A i \in Invocations : kpc[i] = "returned"

\* C20: after any chunkDocument / rechunkDocument invocations on one knowledge
\* base, overlapping ones included, once all of them have finished the stored
\* chunks are exactly the chunk list of one single invocation (chunkIndex
\* 0..n-1, each index once); chunks of different invocations are never mixed.
C20_SupersededWholesale ==
    AllReturned
    => /\ \E i \in Invocations : chunkCollection = ChunkDocs(kchunks[i])
       /\ \A c, d \in chunkCollection : c.chunkIndex = d.chunkIndex => c = d

NoneRunning == \A i \in Invocations : kpc[i] \in {"idle", "returned", "failed"}

\* C21: when the chunking of a document fails, the failure is recorded on the
\* knowledge base (processing.status failed) and the chunks stored by the last
\* successful chunking of that document are still present and unchanged.
C21_FailureKeepsChunks ==
    /\ [][\A i \in Invocations :
            (kpc[i] = "deleted" /\ kpc'[i] = "failed") => kbStatus' = "failed"]_vars
    /\ []((/\ NoneRunning
           /\ kbStatus = "failed"
           /\ \E j \in Invocations : kpc[j] = "returned")
          => \E j \in Invocations :
                kpc[j] = "returned" /\ chunkCollection = ChunkDocs(kchunks[j]))

----------------------------------------------------------------------------
(* Properties of retryJob *)

\* C22: a job is never retried indefinitely: under any sequence or interleaving
\* of retryJob calls job.attempt never exceeds job.maxAttempts, the job is
\* published at most maxAttempts times in total, and once attempt has reached
\* maxAttempts retryJob refuses and publishes nothing.
C22_BoundedRetries ==
    /\ [](job.attempt <= job.maxAttempts)
    /\ [](published <= job.maxAttempts)
    /\ [][\A c \in RetryCalls :
            (rjcalls[c].pc = "idle" /\ rjcalls'[c] # rjcalls[c]
                /\ job.attempt >= job.maxAttempts)
            => (rjcalls'[c].result = "refused" /\ published' = published)]_vars

OthersIdle(c) == \A d \in RetryCalls \ {c} : rjcalls[d].pc = "idle"

\* C26: retryJob changes the persisted job only when the retry is published: if
\* it fails (no retry queue for the job's type, or the publish fails) the
\* stored job keeps the attempt count, status and error it had before the call.
C26_FailedRetryLeavesJob ==
    [][\A c \in RetryCalls :
         (rjcalls[c].pc # "idle" /\ rjcalls'[c].pc = "idle"
             /\ rjcalls'[c].result = "threw" /\ OthersIdle(c))
         => job' = rjcalls[c].loaded]_vars

----------------------------------------------------------------------------
(* Properties of the provider caches *)

\* C23: provider instances are created once per (provider type, model) pair and
\* reused: two requests for the same pair get the same instance, and a request
\* for another model of the same type gets an instance configured for that
\* model, not the one created earlier for another model.
C23_OnePerTypeAndModel ==
    /\ \A a, b \in handed :
          (a.path = b.path /\ a.provider = b.provider /\ a.model = b.model)
          => a.instance = b.instance
    /\ \A a \in handed :
          a.instance.provider = a.provider /\ a.instance.model = a.model


\* the decoder state after the lines of a response, each read whole
RECURSIVE DecodeWhole(_, _, _)
DecodeWhole(v, lines, d) ==
    IF lines = <<>> THEN d
    ELSE DecodeWhole(v, Tail(lines), ProcessLine(v, Head(lines), d))

\* the response stream() returns when every line arrives in one read
WholeReadResponse ==
    LET d == AfterLoop(svendor, DecodeWhole(svendor, script, Decoder(<<>>, "", <<>>)))
    IN [content |-> d.content, finishReason |-> mapFinishReason(svendor, d.finishReason)]

\* C24: the response stream() returns does not depend on how the transport cut the
\* body into reads: with a line split across two reads it is the response decoded
\* from the same lines read whole.
C24_SplitIndependent ==
    spc = "returned" => response = WholeReadResponse


\* the system message truncateHistory keeps: the first one, when asked to preserve it
KeptSystem == IF preserveSystem THEN FirstSystemMessage(history) ELSE <<>>

Suffixes(list) == {SubSeq(list, k + 1, Len(list)) : k \in 0..Len(list)}

\* C25: truncateHistory returns the system message it keeps, if any, followed by
\* a contiguous suffix of the non-system messages in their original order, for
\* both values of preserveSystem and with or without a system message in the input.
C25_ChronologicalSuffix ==
    tpc = "returned" =>
        \E kept \in Suffixes(NonSystemMessages(history)) : truncated = KeptSystem \o kept


\* C27: once close() has completed and until a caller calls connect() again, no
\* reconnect is scheduled and no new broker connection is opened.
C27_StaysClosed ==
    /\ [](closedByCaller => timers = 0)
    /\ [][closedByCaller /\ closedByCaller' => brokerOpen' \subseteq brokerOpen]_vars

\* connections open at the broker or being opened by amqp.connect
OpenOrOpening == Cardinality(brokerOpen) + (IF qpc = "connecting" THEN 1 ELSE 0)

\* C28: at any time at most one broker connection is open or being opened.
C28_AtMostOneConnection == OpenOrOpening <= 1


\* C29: no call to Database.connect() returns without a connection and without
\* an error, and no call makes more than retry.maxAttempts failed attempts; this
\* holds also for a call made after an earlier call has thrown.
C29_ConnectsOrThrows ==
    \A c \in DbCalls : dpc[c] # "returnedNothing" /\ dfailed[c] <= RetryMaxAttempts


\* C30: every embedding an embed or embedBatch call returns, from the cache or
\* from the provider, is the one computed for the normalized text it is returned
\* for.
C30_CacheHitSameText ==
    \A i \in 1..Len(served) : served[i].embedding = VectorOf(served[i].text)

Spec == SpecRetry
====
